---- MODULE Spec2Model ----
(***************************************************************************)
(* A model of the search kernel, the Pluto segment cache and the lazily    *)
(* initialised state of astronomy.py.                                      *)
(*                                                                         *)
(* Numbers.  The program computes with floats.  The model computes with    *)
(* integers: a time is a whole number of ticks (the resolution of a        *)
(* float), a sampled function value is an integer, and every quotient the  *)
(* program forms is either kept as an exact fraction and compared by       *)
(* cross-multiplication, or rounded to the nearest tick where the program   *)
(* stores it in a Time.                                                    *)
(***************************************************************************)
EXTENDS Integers, Sequences, FiniteSets, TLC

VARIABLES
    srch,       \* the locals of one call of Search, and its outcome
    moon,       \* one call of SearchMoonPhase: its arguments and its outcome
    alt,        \* one call of _InternalSearchAltitude, from SearchRiseSet or SearchAltitude
    it,         \* one call of an iterating search: which one, its pass count, its outcome
    pluto_cache,    \* _pluto_cache: for each slot the list it refers to, 0 for None
    heap,       \* the segment lists allocated so far, in order of allocation
    th,         \* the callers of _CalcPluto: each one's position and locals
    glob,       \* the module's globals _CalcMoonCount, _ConstelRot and _Epoch2000
    times,      \* the Time objects constructed so far: ut, tt and the etilt cache
    ret,        \* what the last call on a Time or a global returned or raised
    chain,      \* a chain of successive events: moon quarters or apsides
    call        \* one call of a function that validates or converts its arguments

vars == <<srch, moon, alt, it, pluto_cache, heap, th, glob, times, ret, chain, call>>

\* the value of a variable whose operation the specification does not run
Idle == [pc |-> "idle"]

\* the variables each operation leaves alone
searchOthers == <<moon, alt, it, pluto_cache, heap, th, glob, times, ret, chain, call>>
moonOthers == <<srch, alt, it, pluto_cache, heap, th, glob, times, ret, chain, call>>
altOthers == <<srch, moon, it, pluto_cache, heap, th, glob, times, ret, chain, call>>
iterOthers == <<srch, moon, alt, pluto_cache, heap, th, glob, times, ret, chain, call>>
plutoOthers == <<srch, moon, alt, it, glob, times, ret, chain, call>>
stateOthers == <<srch, moon, alt, it, pluto_cache, heap, th, chain, call>>

\* Pluto is not queried
NoPluto == pluto_cache = Idle /\ heap = Idle /\ th = Idle
\* no Time is constructed and no global is touched
NoState == glob = Idle /\ times = Idle /\ ret = Idle
\* no chain of events is followed and no validating function is called
NoEvents == chain = Idle /\ call = Idle

(***************************************************************************)
(* Bounds of the model.                                                    *)
(***************************************************************************)
\* ticks of UT over which Delta-T drifts by one tick
DriftDen == 8
\* fixed-point scale of the square root taken by _QuadInterp
SqrtScale == 4
\* the narrow search windows are 1..MaxWindowUnits times 8*DriftDen ticks wide
MaxWindowUnits == 2
\* largest tolerance (dt_days), in ticks, a search is started with
MaxTol == 2
\* divisor of the quadratic term of the sampled polynomials
CurveDen == 16
\* largest magnitude of the coefficients of the sampled functions
MaxCoef == 2
\* largest jump of a sampled function at its root
MaxJump == 5
\* ticks in a day, for the searches whose arguments are in days
DayTicks == 16
\* angle units in a degree
AngleDen == 16
\* amplitude, in degrees, of the Moon's departure from its mean phase
MoonEcc == 6
\* the start of a Moon phase search is tried at MoonStarts phases of the month
MoonStarts == 12

Abs(x) == IF x < 0 THEN -x ELSE x
Sgn(x) == IF x < 0 THEN -1 ELSE IF x > 0 THEN 1 ELSE 0

\* F(v), with v computed once: a local variable that holds a result
With(v, F(_)) == CHOOSE out \in {F(x) : x \in {v}} : TRUE

(***************************************************************************)
(* Time.  DeltaT_EspenakMeeus is a piecewise polynomial with a minimum     *)
(* near the year 1820 that grows on both sides; in ticks it is a V with    *)
(* slope 1/DriftDen whose vertex is the model's tick 0.                    *)
(***************************************************************************)
DeltaT(ut) == Abs(ut) \div DriftDen

\* _TerrestrialTime: tt = ut + DeltaT(ut)
TerrestrialTime(ut) == ut + DeltaT(ut)

\* Time.AddDays: the ut field is adjusted exactly; tt follows from ut
AddDays(ut, days) == ut + days

(***************************************************************************)
(* Angles are whole numbers of 1/AngleDen degree.                          *)
(***************************************************************************)
Deg(d) == d * AngleDen

\* _LongitudeOffset: the angle brought into (-180, +180] degrees
LongitudeOffset(diff) == Deg(180) - ((Deg(180) - diff) % Deg(360))

\* _MEAN_SYNODIC_MONTH = 29.530588 days, in ticks
MeanSynodicMonth == (29530588 * DayTicks) \div 1000000

\* the anomalistic month, 27.55 days, in ticks: the period of the Moon's
\* departure from its mean motion
AnomalisticMonth == (2755 * DayTicks) \div 100

\* a triangle wave of period p and amplitude amp, zero at h = p/4
Wave(h, p, amp) == (amp * (2 * Abs(2 * (h % p) - p) - p)) \div p

\* MoonPhase(time) = PairLongitude(Moon, Sun, time), in [0, 360) degrees:
\* the mean phase since the new moon at n0 plus the departure from it
MoonPhase(n0, a0, t) ==
    ((Deg(360) * (t - n0)) \div MeanSynodicMonth
        + Wave(t - a0, AnomalisticMonth, Deg(MoonEcc))) % Deg(360)

\* _moon_offset(targetLon, time)
MoonOffset(targetLon, n0, a0, t) ==
    LongitudeOffset(MoonPhase(n0, a0, t) - targetLon)

(***************************************************************************)
(* Distances.  An orbit is a record of its period and of the time apo of   *)
(* one apocenter; the distance of the satellite from its primary, less its *)
(* mean, is a smoothed wave that is greatest at apo and least half a       *)
(* period later.                                                           *)
(***************************************************************************)
\* amplitude of the distance, in distance units
DistAmp == 16384

\* a wave value w in [-amp, amp] bent so that it is flat at its extremes
Smooth(w, amp) == (w * (2 * amp - Abs(w))) \div amp

\* _MoonDistance(time), HelioDistance(body, time)
Distance(o, t) == Smooth(Wave(t - o.apo, o.period, DistAmp), DistAmp)

\* _moon_distance_slope, _planet_distance_slope: direction times the
\* difference of the distances half a step after and before time; the
\* division by the positive step dt is left out
DistanceSlope(o, direction, t) ==
    direction * (Distance(o, AddDays(t, 1)) - Distance(o, AddDays(t, -1)))

(***************************************************************************)
(* The Sun.  Its apparent ecliptic longitude is the mean longitude, which  *)
(* gains 360 degrees in a tropical year, plus the equation of the centre,  *)
(* whose period is the anomalistic year.  Years are given in days as       *)
(* num/den; angles at the epoch (ut = 0) in hundredths of a degree.        *)
(***************************************************************************)
TropicalYear == [num |-> 3652422, den |-> 10000]
AnomalisticYear == [num |-> 3652596, den |-> 10000]
\* mean longitude and mean anomaly at the epoch, amplitude of the equation
\* of the centre
SunEpoch == [longitude |-> 28046, anomaly |-> 35753, centre |-> 191]

\* the angle, of 360 degrees a year, swept from the epoch to t
YearAngle(t, yr) ==
    LET day == t \div DayTicks
        rem == t % DayTicks
        f == (((day * yr.den) % yr.num) + ((rem * yr.den) \div DayTicks)) % yr.num
    IN  ((f \div 16) * Deg(360)) \div (yr.num \div 16)

\* SunPosition(time).elon
SunLongitude(t) ==
    LET mean == (SunEpoch.longitude * AngleDen) \div 100 + YearAngle(t, TropicalYear)
        anom == (SunEpoch.anomaly * AngleDen) \div 100 + YearAngle(t, AnomalisticYear)
        sine == Smooth(Wave(anom - Deg(90), Deg(360), DistAmp), DistAmp)
    IN  (mean + (sine * SunEpoch.centre * AngleDen) \div (100 * DistAmp)) % Deg(360)

\* _sun_offset(targetLon, time)
SunOffset(targetLon, t) == LongitudeOffset(SunLongitude(t) - targetLon)

(***************************************************************************)
(* Planets.  A body is a record of its orbital period in ticks, its        *)
(* heliocentric longitude lon0 at ut = 0, the time peri and the amplitude  *)
(* ecc, in degrees, of its departure from the mean motion, and, for        *)
(* Mercury and Venus, the relative longitude peak, in degrees, at which    *)
(* its angle from the Sun is greatest.                                     *)
(***************************************************************************)
\* EclipticLongitude(body, time), in [0, 360) degrees
HelioLongitude(b, t) ==
    (b.lon0 + (Deg(360) * (t % b.period)) \div b.period
        + Wave(t - b.peri, b.period, Deg(b.ecc))) % Deg(360)

\* _PlanetOrbitalPeriod[Body.Earth] = _EARTH_ORBITAL_PERIOD = 365.256 days
EarthBody ==
    [name |-> "Earth", period |-> (365256 * DayTicks) \div 1000,
     lon0 |-> Deg(100), peri |-> 0, ecc |-> 2, peak |-> 0]

\* _SynodicPeriod(body)
SynodicPeriod(b) ==
    Abs((EarthBody.period * b.period) \div (EarthBody.period - b.period))

\* _rlon_offset(body, time, direction, targetRelLon)
RelLonOffset(b, t, direction, targetRelLon) ==
    LongitudeOffset(direction * (HelioLongitude(EarthBody, t) - HelioLongitude(b, t))
                        - targetRelLon)

\* AngleFromSun(body, time) of Mercury or Venus, less its greatest value:
\* it falls off on both sides of the relative longitudes +peak and -peak
AngleFromSun(b, t) ==
    LET rlon == LongitudeOffset(HelioLongitude(b, t) - HelioLongitude(EarthBody, t))
        away == Abs(rlon) - Deg(b.peak)
    IN  -((away * away) \div AngleDen)

\* _neg_elong_slope(body, time): e1 - e2 over the step from t1 to t2; the
\* division by the positive step dt is left out
NegElongSlope(b, t) ==
    AngleFromSun(b, AddDays(t, -1)) - AngleFromSun(b, AddDays(t, 1))

\* math.sqrt on the fixed-point grid: the largest r with r*r <= n
RECURSIVE SqrtBetween(_, _, _)
SqrtBetween(n, lo, hi) ==
    IF lo >= hi THEN lo
    ELSE LET mid == (lo + hi + 1) \div 2
         IN  IF mid * mid <= n THEN SqrtBetween(n, mid, hi)
                               ELSE SqrtBetween(n, lo, mid - 1)

RECURSIVE SqrtHi(_, _)
SqrtHi(n, h) == IF h * h > n THEN h ELSE SqrtHi(n, 2 * h)

ISqrt(n) == SqrtBetween(n, 0, SqrtHi(n, 1))

\* _CalcShadow: r, the distance of the target from the shadow axis, for an
\* axis that passes at the distance r0 at the time closest and moves v a tick
ShadowDistance(r0, v, closest, t) ==
    ISqrt(r0 * r0 + (v * (t - closest)) * (v * (t - closest)))

(***************************************************************************)
(* The functions handed to Search.  A function is a record; Func applies   *)
(* it to the ut of a Time.                                                 *)
(***************************************************************************)
Func(fn, t) ==
    IF fn.kind = "step"
    THEN (IF t < fn.c THEN fn.lo ELSE fn.hi)
    ELSE IF fn.kind = "moon"
    THEN MoonOffset(fn.c, fn.a, fn.b, t)
    ELSE IF fn.kind = "altitude"
    THEN fn.a * (Wave(t - fn.c, DayTicks, fn.b) + fn.d)
    ELSE IF fn.kind = "sun"
    THEN SunOffset(fn.c, t)
    ELSE IF fn.kind = "elong"
    THEN NegElongSlope(fn.a, t)
    ELSE IF fn.kind = "slope"
    THEN DistanceSlope([period |-> fn.b, apo |-> fn.c], fn.a, t)
    ELSE IF fn.kind = "shadow"
    THEN fn.hi * (fn.d - ShadowDistance(fn.a, fn.b, fn.c, t))
    ELSE IF fn.kind = "ramp"
    THEN fn.b * (t - fn.c) + (IF t < fn.c THEN fn.lo ELSE fn.hi)
    ELSE (fn.a * (t - fn.c) * (t - fn.c)) \div CurveDen + fn.b * (t - fn.c) + fn.d

\* a quotient rounded to the nearest tick, as a float result is rounded
Round(n, d) == (2 * n + d) \div (2 * d)

(***************************************************************************)
(* _QuadInterp(tm, dt, fa, fm, fb).  Q2 and R2 are twice the program's Q   *)
(* and R, so that they stay integers.  The root x is the fraction xn/xd    *)
(* with xd > 0; the slope df_dt is the fraction dfn/dfd with dfd > 0.      *)
(* The result is a record with ok = FALSE where the program returns None.  *)
(***************************************************************************)
NoRoot == [ok |-> FALSE, t |-> 0, dfn |-> 0, dfd |-> 1]

QuadRoot(tm, dt, Q2, R2, xn, xd) ==
    [ok |-> TRUE, t |-> tm + Round(xn * dt, xd),
     dfn |-> 2 * Q2 * xn + R2 * xd, dfd |-> 2 * xd * dt]

InRange(xn, xd) == -xd <= xn /\ xn <= xd

QuadInterp(tm, dt, fa, fm, fb) ==
    LET Q2 == fb + fa - 2 * fm
        R2 == fb - fa
        S  == fm
    IN  IF Q2 = 0
        THEN IF R2 = 0 THEN NoRoot
             ELSE LET xn == -2 * S * Sgn(R2)
                      xd == Abs(R2)
                  IN  IF InRange(xn, xd) THEN QuadRoot(tm, dt, Q2, R2, xn, xd)
                                         ELSE NoRoot
        ELSE LET u4 == R2 * R2 - 8 * Q2 * S
             IN  IF u4 <= 0 THEN NoRoot
                 ELSE LET ru == ISqrt(u4 * SqrtScale * SqrtScale)
                          xd == 2 * Abs(Q2) * SqrtScale
                          x1 == (-R2 * SqrtScale + ru) * Sgn(Q2)
                          x2 == (-R2 * SqrtScale - ru) * Sgn(Q2)
                      IN  IF InRange(x1, xd)
                          THEN IF InRange(x2, xd) THEN NoRoot
                               ELSE QuadRoot(tm, dt, Q2, R2, x1, xd)
                          ELSE IF InRange(x2, xd)
                               THEN QuadRoot(tm, dt, Q2, R2, x2, xd)
                               ELSE NoRoot

(***************************************************************************)
(* Search(func, context, t1, t2, dt_tolerance_seconds).                    *)
(* srch holds the arguments (func, w1, w2, dt_days), the locals of the     *)
(* loop and the outcome: pc is "loop" while the call runs, "return" once   *)
(* it has returned (result is "Time" or "None") and "raise" once it has    *)
(* raised (result names the exception class).                              *)
(***************************************************************************)
iter_limit == 20

\* iter_count > iter_limit, tested after iter_count += 1
ExcessiveOffByOne(n) == n > iter_limit + 1

Excessive(n) == n > iter_limit

\* raise Error('Excessive iteration in Search')
ExcessiveIteration == "Error"

SearchEntry(fn, t1, t2, dt_days) ==
    [func |-> fn, w1 |-> t1, w2 |-> t2, dt_days |-> dt_days,
     t1 |-> t1, t2 |-> t2, f1 |-> Func(fn, t1), f2 |-> Func(fn, t2),
     fmid |-> 0, calc_fmid |-> TRUE, iter_count |-> 0,
     pc |-> "loop", branch |-> "entry", result |-> "pending", t |-> 0]

SearchReturn(s, n, fm, br, kind, time) ==
    [s EXCEPT !.iter_count = n, !.fmid = fm, !.calc_fmid = TRUE,
              !.pc = "return", !.branch = br, !.result = kind, !.t = time]

\* the bisection at the end of the loop body
Bisect(s, n, tmid, fm) ==
    IF s.f1 < 0 /\ fm >= 0
    THEN [s EXCEPT !.iter_count = n, !.fmid = fm, !.calc_fmid = TRUE,
                   !.t2 = tmid, !.f2 = fm, !.branch = "lower"]
    ELSE IF fm < 0 /\ s.f2 >= 0
    THEN [s EXCEPT !.iter_count = n, !.fmid = fm, !.calc_fmid = TRUE,
                   !.t1 = tmid, !.f1 = fm, !.branch = "upper"]
    ELSE SearchReturn(s, n, fm, "none", "None", 0)

\* the window [tq - 1.2*dt_guess, tq + 1.2*dt_guess] is taken when both ends
\* lie strictly inside (t1, t2) and the function ascends across it
TightWindow(s, n, tmid, fm, tq, fq, off) ==
    LET tleft  == AddDays(tq, -off)
        tright == AddDays(tq, off)
    IN  IF /\ (tleft - s.t1) * (tleft - s.t2) < 0
           /\ (tright - s.t1) * (tright - s.t2) < 0
           /\ Func(s.func, tleft) < 0
           /\ Func(s.func, tright) >= 0
        THEN [s EXCEPT !.iter_count = n, !.calc_fmid = FALSE,
                       !.f1 = Func(s.func, tleft), !.f2 = Func(s.func, tright),
                       !.t1 = tleft, !.t2 = tright, !.fmid = fq,
                       !.branch = "tight"]
        ELSE Bisect(s, n, tmid, fm)

\* 1.2 * dt_guess < half of dt, with dt_guess = gn/gd and dt = dtt2/2 half
\* the window
TightEnoughFifth(gn, gd, dtt2) == 12 * gn < dtt2 * gd

\* dt_guess *= 1.2; if dt_guess < dt / 10.0, with dt_guess = gn/gd and
\* dt = dtt2/2
TightEnough(gn, gd, dtt2) == 24 * gn < dtt2 * gd

\* one pass through the body of the while loop
SearchBody(s) ==
    LET n    == s.iter_count + 1
        dtt2 == TerrestrialTime(s.t2) - TerrestrialTime(s.t1)  \* twice dt
        tmid == AddDays(s.t1, Round(dtt2, 2))
        fm   == IF s.calc_fmid THEN Func(s.func, tmid) ELSE s.fmid
        q    == QuadInterp(tmid, s.t2 - tmid, s.f1, fm, s.f2)
        fq   == Func(s.func, q.t)
        gn   == Abs(fq) * q.dfd        \* dt_guess = gn / gd
        gd   == Abs(q.dfn)
    IN  IF Excessive(n)
        THEN [s EXCEPT !.iter_count = n, !.pc = "raise",
                       !.branch = "excessive", !.result = ExcessiveIteration]
        ELSE IF Abs(dtt2) < 2 * s.dt_days
        THEN [s EXCEPT !.iter_count = n, !.pc = "return",
                       !.branch = "converged", !.result = "Time", !.t = tmid]
        ELSE IF q.ok /\ q.dfn # 0
        THEN IF gn < s.dt_days * gd
             THEN SearchReturn(s, n, fm, "quad", "Time", q.t)
             ELSE IF TightEnough(gn, gd, dtt2)
             THEN TightWindow(s, n, tmid, fm, q.t, fq, Round(6 * gn, 5 * gd))
             ELSE Bisect(s, n, tmid, fm)
        ELSE Bisect(s, n, tmid, fm)

(***************************************************************************)
(* The searches the model starts.  A narrow window lies in the era where   *)
(* Delta-T falls (ut < 0) or in the era where it rises (ut > 0) and is     *)
(* searched for a polynomial or a step function; a wide window is          *)
(* 4 * 2^iter_limit ticks, which bisection cannot narrow to a tolerance    *)
(* of one tick within the iteration limit.                                 *)
(***************************************************************************)
RECURSIVE Pow2(_)
Pow2(n) == IF n = 0 THEN 1 ELSE 2 * Pow2(n - 1)

WideWidth == 4 * Pow2(iter_limit)

Widths == {8 * DriftDen * m : m \in 1..MaxWindowUnits}

Tols == 1..MaxTol

Windows(W) == {[t1 |-> -W, t2 |-> 0], [t1 |-> 0, t2 |-> W]}

Centres(w) == {w.t1 + (k * (w.t2 - w.t1)) \div 4 : k \in 0..4}

Polys(w) ==
    {[kind |-> "poly", a |-> a, b |-> b, d |-> d, c |-> c, lo |-> 0, hi |-> 0] :
        a \in -1..1, b \in -MaxCoef..MaxCoef, d \in -MaxCoef..MaxCoef,
        c \in Centres(w)}

Steps(w) ==
    {[kind |-> "step", a |-> 0, b |-> 0, d |-> 0, c |-> c, lo |-> lo, hi |-> hi] :
        lo \in -1..1, hi \in -1..1, c \in Centres(w)}

WideStep(w) ==
    [kind |-> "step", a |-> 0, b |-> 0, d |-> 0,
     c |-> w.t1 + (w.t2 - w.t1) \div 3, lo |-> -1, hi |-> 1]

\* a rising line with a jump upwards at its only root c
Ramps(w) ==
    {[kind |-> "ramp", a |-> 0, b |-> b, d |-> 0, c |-> c, lo |-> -h, hi |-> h] :
        b \in 1..MaxCoef, h \in 1..MaxJump, c \in (w.t1 + 1)..(w.t2 - 1)}

NarrowSearches ==
    UNION {{SearchEntry(fn, w.t1, w.t2, tol) :
                fn \in Polys(w) \cup Steps(w) \cup Ramps(w), tol \in Tols} :
           w \in UNION {Windows(W) : W \in Widths}}

WideSearches ==
    {SearchEntry(WideStep(w), w.t1, w.t2, 1) : w \in Windows(WideWidth)}

SearchInit ==
    /\ NoEvents
    /\ srch \in NarrowSearches \cup WideSearches
    /\ moon = Idle
    /\ alt = Idle
    /\ it = Idle
    /\ NoPluto
    /\ NoState

\* iter_count exceeds iter_limit: the call raises
SearchExcessive ==
    /\ srch.pc = "loop"
    /\ SearchBody(srch).branch = "excessive"
    /\ srch' = SearchBody(srch)
    /\ UNCHANGED searchOthers
\* the window is narrower than the tolerance: return tmid
SearchConverged ==
    /\ srch.pc = "loop"
    /\ SearchBody(srch).branch = "converged"
    /\ srch' = SearchBody(srch)
    /\ UNCHANGED searchOthers
\* the interpolated root is within the tolerance: return tq
SearchQuadReturn ==
    /\ srch.pc = "loop"
    /\ SearchBody(srch).branch = "quad"
    /\ srch' = SearchBody(srch)
    /\ UNCHANGED searchOthers
\* continue with the tight window around the interpolated root
SearchTighten ==
    /\ srch.pc = "loop"
    /\ SearchBody(srch).branch = "tight"
    /\ srch' = SearchBody(srch)
    /\ UNCHANGED searchOthers
\* the function ascends through zero in [t1, tmid]: t2 = tmid
SearchBisectLower ==
    /\ srch.pc = "loop"
    /\ SearchBody(srch).branch = "lower"
    /\ srch' = SearchBody(srch)
    /\ UNCHANGED searchOthers
\* the function ascends through zero in [tmid, t2]: t1 = tmid
SearchBisectUpper ==
    /\ srch.pc = "loop"
    /\ SearchBody(srch).branch = "upper"
    /\ srch' = SearchBody(srch)
    /\ UNCHANGED searchOthers
\* no ascending zero-crossing in either half: return None
SearchNoRoot ==
    /\ srch.pc = "loop"
    /\ SearchBody(srch).branch = "none"
    /\ srch' = SearchBody(srch)
    /\ UNCHANGED searchOthers

SearchNext ==
    \/ SearchExcessive
    \/ SearchConverged
    \/ SearchQuadReturn
    \/ SearchTighten
    \/ SearchBisectLower
    \/ SearchBisectUpper
    \/ SearchNoRoot

SpecSearch == SearchInit /\ [][SearchNext]_vars

(***************************************************************************)
(* Claims about Search.                                                    *)
(***************************************************************************)
Returned == srch.pc = "return" /\ srch.result = "Time"

\* C1: a Time returned by Search lies in the inclusive range [t1, t2] of
\* the call's arguments.
C1_ResultInWindow ==
    Returned => (srch.w1 <= srch.t /\ srch.t <= srch.w2)

\* the function goes from negative to non-negative somewhere in [t1, t2]
HasAscent(fn, t1, t2) ==
    \E u \in t1..(t2 - 1) : Func(fn, u) < 0 /\ Func(fn, u + 1) >= 0

\* C2: Search returns a Time only if the function has a transition from
\* negative to non-negative in [t1, t2]; without one it returns None.
C2_TimeOnlyForAscent ==
    Returned => HasAscent(srch.func, srch.w1, srch.w2)

C26_WindowNarrows ==
    [][(srch'.pc = "loop" /\ srch'.branch \in {"tight", "lower", "upper"}) =>
          /\ srch.t1 <= srch'.t1
          /\ srch'.t2 <= srch.t2
          /\ srch'.t2 - srch'.t1 < srch.t2 - srch.t1
          /\ Func(srch.func, srch'.t1) < 0
          /\ Func(srch.func, srch'.t2) >= 0]_vars

\* the quantities of one pass of the loop that has an interpolated root:
\* half the window in tt (twice, dtt2), the root tq with its value fq, the
\* error estimate dt_guess = gn/gd and the ends tq -+ 1.2 * dt_guess
SearchEstimate(s) ==
    LET dtt2 == TerrestrialTime(s.t2) - TerrestrialTime(s.t1)
        tmid == AddDays(s.t1, Round(dtt2, 2))
        fm   == IF s.calc_fmid THEN Func(s.func, tmid) ELSE s.fmid
        q    == QuadInterp(tmid, s.t2 - tmid, s.f1, fm, s.f2)
        fq   == Func(s.func, q.t)
        gn   == Abs(fq) * q.dfd
        gd   == Abs(q.dfn)
        off  == IF gd = 0 THEN 0 ELSE Round(6 * gn, 5 * gd)
    IN  [reached |-> /\ s.pc = "loop"
                     /\ s.iter_count + 1 <= iter_limit
                     /\ Abs(dtt2) >= 2 * s.dt_days
                     /\ q.ok /\ q.dfn # 0
                     /\ gn >= s.dt_days * gd,
         dtt2 |-> dtt2, gn |-> gn, gd |-> gd, tq |-> q.t,
         tleft |-> q.t - off, tright |-> q.t + off]

\* both ends strictly inside (t1, t2) and f(tleft) < 0 <= f(tright)
EndsInsideAscending(s, e) ==
    /\ s.t1 < e.tleft /\ e.tleft < s.t2
    /\ s.t1 < e.tright /\ e.tright < s.t2
    /\ Func(s.func, e.tleft) < 0
    /\ Func(s.func, e.tright) >= 0

\* C25 (as claimed): after an interpolated estimate whose error is not below
\* the tolerance, Search adopts the window [tq - 1.2*error, tq + 1.2*error]
\* exactly when 1.2*error < half-interval/5, both ends lie strictly inside
\* (t1, t2), and f(tleft) < 0 <= f(tright).
C25_TightWithinFifth ==
    [][LET e == SearchEstimate(srch)
       IN  e.reached =>
              ((srch'.branch = "tight" /\ srch'.pc = "loop") <=>
                  /\ 12 * e.gn < e.dtt2 * e.gd
                  /\ EndsInsideAscending(srch, e))]_vars

\* C25 (amended): the window is adopted exactly when 1.2*error is less than a
\* tenth of the half-interval, both ends lie strictly inside (t1, t2), and
\* f(tleft) < 0 <= f(tright); the adopted window is then [tleft, tright].
C25_TightWithinTenth ==
    [][LET e == SearchEstimate(srch)
       IN  e.reached =>
              /\ (srch'.branch = "tight" /\ srch'.pc = "loop") <=>
                     /\ 24 * e.gn < e.dtt2 * e.gd
                     /\ EndsInsideAscending(srch, e)
              /\ srch'.branch = "tight" =>
                     (srch'.t1 = e.tleft /\ srch'.t2 = e.tright)]_vars

\* a pass that has adopted the tight window
C25_Witness ==
    /\ srch.pc = "loop"
    /\ srch.branch = "tight"
    /\ srch.t1 > srch.w1
    /\ srch.t2 < srch.w2

(***************************************************************************)
(* A whole call of Search, as its callers see it.                          *)
(***************************************************************************)
RECURSIVE SearchRun(_)
SearchRun(s) == IF s.pc = "loop" THEN SearchRun(SearchBody(s)) ELSE s

Search(fn, t1, t2, dt_days) == SearchRun(SearchEntry(fn, t1, t2, dt_days))

(***************************************************************************)
(* SearchMoonPhase(targetLon, startTime, limitDays).  The offset ya, the   *)
(* estimate est_dt = -(_MEAN_SYNODIC_MONTH * ya) / 360 and the window ends *)
(* dt1, dt2 are kept as numerators over Deg(360).                          *)
(***************************************************************************)
\* uncertainty = 1.5 days
Uncertainty == (3 * DayTicks) \div 2

\* the tolerance SearchMoonPhase passes to Search (1.0 second), in ticks
MoonTolerance == 1

MoonFunc(targetLon, n0, a0) ==
    [kind |-> "moon", a |-> n0, b |-> a0, c |-> targetLon,
     d |-> 0, lo |-> 0, hi |-> 0]

\* ya = _moon_offset(targetLon, startTime), less 360 degrees when positive
MoonYa(m) ==
    LET ya == MoonOffset(m.targetLon, m.n0, m.a0, m.startTime)
    IN  IF ya > 0 THEN ya - Deg(360) ELSE ya

\* est_dt * Deg(360)
EstNum(m) == -(MeanSynodicMonth * MoonYa(m))

\* dt1 = est_dt - uncertainty > limitDays: the phase cannot occur within the window
MoonTooLate(m) == EstNum(m) - Uncertainty * Deg(360) > m.limitDays * Deg(360)

MoonT1(m) ==
    AddDays(m.startTime, Round(EstNum(m) - Uncertainty * Deg(360), Deg(360)))

\* dt2 = est_dt + uncertainty, without the limit
MoonT2Unclamped(m) ==
    AddDays(m.startTime, Round(EstNum(m) + Uncertainty * Deg(360), Deg(360)))

\* dt2 = min(limitDays, est_dt + uncertainty)
MoonT2(m) ==
    IF m.limitDays * Deg(360) <= EstNum(m) + Uncertainty * Deg(360)
    THEN AddDays(m.startTime, m.limitDays)
    ELSE AddDays(m.startTime, Round(EstNum(m) + Uncertainty * Deg(360), Deg(360)))

MoonCalls ==
    {[pc |-> "call", targetLon |-> Deg(90 * q), startTime |-> st,
      limitDays |-> lim, n0 |-> n0, a0 |-> a0, result |-> "pending", t |-> 0] :
        q \in {0, 2},
        st \in {-20 * MeanSynodicMonth, 20 * MeanSynodicMonth},
        lim \in {0, DayTicks \div 2, 2 * DayTicks, 10 * DayTicks, 40 * DayTicks},
        n0 \in {(k * MeanSynodicMonth) \div MoonStarts : k \in 0..(MoonStarts - 1)},
        a0 \in {0, AnomalisticMonth \div 3, (2 * AnomalisticMonth) \div 3}}

MoonInit ==
    /\ NoEvents
    /\ moon \in MoonCalls
    /\ srch = Idle
    /\ alt = Idle
    /\ it = Idle
    /\ NoPluto
    /\ NoState

\* dt1 > limitDays: return None
MoonPhaseTooLate ==
    /\ moon.pc = "call"
    /\ MoonTooLate(moon)
    /\ moon' = [moon EXCEPT !.pc = "return", !.result = "None"]
    /\ UNCHANGED moonOthers

\* return Search(_moon_offset, targetLon, t1, t2, 1.0)
MoonPhaseSearch ==
    /\ moon.pc = "call"
    /\ ~MoonTooLate(moon)
    /\ LET r == Search(MoonFunc(moon.targetLon, moon.n0, moon.a0),
                       MoonT1(moon), MoonT2(moon), MoonTolerance)
       IN  moon' = [moon EXCEPT !.pc = IF r.pc = "raise" THEN "raise" ELSE "return",
                                !.result = r.result, !.t = r.t]
    /\ UNCHANGED moonOthers

MoonNext == MoonPhaseTooLate \/ MoonPhaseSearch

SpecMoon == MoonInit /\ [][MoonNext]_vars

(***************************************************************************)
(* Claims about SearchMoonPhase.                                           *)
(***************************************************************************)
MoonDone == moon.pc = "return"

MoonInWindow ==
    (MoonDone /\ moon.result = "Time") =>
        /\ moon.startTime <= moon.t
        /\ moon.t <= moon.startTime + moon.limitDays

SolarPerSiderealNum == 99727
SolarPerSiderealDen == 100000

\* math.fmod(x, p): the remainder takes the sign of x
Fmod(x, p) == IF x >= 0 THEN x % p ELSE -((-x) % p)

\* float('nan'), a value no time or angle of the model takes: arithmetic on
\* it gives nan and every comparison with it is false
NaN == -1000000
IsNaN(x) == x = NaN

\* if hourAngle < 0.0 or hourAngle >= 24.0: raise Error('Invalid hour angle.')
HourAngleInvalid(hourAngle) ==
    ~IsNaN(hourAngle) /\ (hourAngle < 0 \/ hourAngle >= 24)

\* delta_sidereal_hours, after the adjustment of the first and later passes
HourAngleDelta(sky, hourAngle, time, iter_count) ==
    IF IsNaN(hourAngle) \/ IsNaN(time) THEN NaN
    ELSE
    LET raw == Fmod(sky.culm + (hourAngle * DayTicks) \div 24 - time, DayTicks)
    IN  IF iter_count = 1
        THEN (IF raw < 0 THEN raw + DayTicks ELSE raw)
        ELSE IF 2 * raw < -DayTicks THEN raw + DayTicks
        ELSE IF 2 * raw > DayTicks THEN raw - DayTicks
        ELSE raw

\* abs(delta_sidereal_hours) * 3600.0 < 0.1: less than a tick
HourAngleTolerable(delta) == ~IsNaN(delta) /\ Abs(delta) < 1

\* one pass of the loop of SearchHourAngle
HourAngleBody(sky, hourAngle, h) ==
    LET n == h.iter_count + 1
        delta == HourAngleDelta(sky, hourAngle, h.time, n)
    IN  IF HourAngleTolerable(delta)
        THEN [h EXCEPT !.iter_count = n, !.pc = "return"]
        ELSE [h EXCEPT !.iter_count = n,
                       !.time = IF IsNaN(delta) THEN NaN
                                ELSE AddDays(h.time,
                                         Round(delta * SolarPerSiderealNum,
                                               SolarPerSiderealDen))]

RECURSIVE HourAngleRun(_, _, _)
HourAngleRun(sky, hourAngle, h) ==
    IF h.pc = "loop" THEN HourAngleRun(sky, hourAngle, HourAngleBody(sky, hourAngle, h))
    ELSE h

\* the time of the HourAngleEvent the call returns
SearchHourAngle(sky, hourAngle, startTime) ==
    HourAngleRun(sky, hourAngle,
                 [pc |-> "loop", time |-> startTime, iter_count |-> 0]).time

(***************************************************************************)
(* _InternalSearchAltitude(body, observer, direction, startTime,           *)
(* limitDays, altitude_error_func, altitude_error_context), which is all   *)
(* of SearchRiseSet and of SearchAltitude after their argument checks.     *)
(* The altitude of the body is a wave of one day's period about sky.shift, *)
(* highest at the culmination.                                             *)
(***************************************************************************)
\* amplitude of the daily altitude wave
AltAmp == 64

\* the tolerance _InternalSearchAltitude passes to Search (1.0 second), in ticks
AltTolerance == 1

\* Direction.Rise = +1, Direction.Set = -1
Rise == 1
Set == -1

\* ha_before, ha_after: the hour angles on either side of the event
HaBefore(direction) == IF direction = Rise THEN 12 ELSE 0
HaAfter(direction) == IF direction = Rise THEN 0 ELSE 12

\* altitude_error_func with its context: direction * (altitude - target)
AltFunc(a) ==
    [kind |-> "altitude", a |-> a.direction, b |-> a.sky.amp, c |-> a.sky.culm,
     d |-> a.sky.shift, lo |-> 0, hi |-> 0]

AltCalls ==
    {[pc |-> "call", direction |-> dir, startTime |-> 2 * DayTicks + k,
      limitDays |-> lim, sky |-> [culm |-> c, amp |-> AltAmp, shift |-> sh],
      time_before |-> 0, time_after |-> 0, alt_before |-> 0, alt_after |-> 0,
      result |-> "pending", t |-> 0] :
        dir \in {Rise, Set},
        k \in 0..(DayTicks - 1),
        lim \in {DayTicks \div 8, DayTicks, 3 * DayTicks},
        c \in {0, DayTicks \div 3},
        sh \in {-2 * AltAmp, -(AltAmp \div 2), 0, AltAmp \div 2, 2 * AltAmp}}

AltInit ==
    /\ NoEvents
    /\ alt \in AltCalls
    /\ srch = Idle
    /\ moon = Idle
    /\ it = Idle
    /\ NoPluto
    /\ NoState

\* alt_before > 0.0: past the sought event, wait for the next "before" event
AltStartAbove ==
    /\ alt.pc = "call"
    /\ Func(AltFunc(alt), alt.startTime) > 0
    /\ LET time_before == SearchHourAngle(alt.sky, HaBefore(alt.direction), alt.startTime)
           time_after == SearchHourAngle(alt.sky, HaAfter(alt.direction), time_before)
       IN  alt' = [alt EXCEPT !.pc = "loop",
                              !.time_before = time_before,
                              !.alt_before = Func(AltFunc(alt), time_before),
                              !.time_after = time_after,
                              !.alt_after = Func(AltFunc(alt), time_after)]
    /\ UNCHANGED altOthers

\* alt_before <= 0.0: the start time is the "before" event
AltStartBelow ==
    /\ alt.pc = "call"
    /\ Func(AltFunc(alt), alt.startTime) <= 0
    /\ LET time_after == SearchHourAngle(alt.sky, HaAfter(alt.direction), alt.startTime)
       IN  alt' = [alt EXCEPT !.pc = "loop",
                              !.time_before = alt.startTime,
                              !.alt_before = Func(AltFunc(alt), alt.startTime),
                              !.time_after = time_after,
                              !.alt_after = Func(AltFunc(alt), time_after)]
    /\ UNCHANGED altOthers

\* event_time = Search(...) where alt_before <= 0.0 and alt_after > 0.0
AltEventTime(a) ==
    IF a.alt_before <= 0 /\ a.alt_after > 0
    THEN Search(AltFunc(a), a.time_before, a.time_after, AltTolerance)
    ELSE [pc |-> "return", result |-> "None", t |-> 0]

\* the next "before" event, found from the "after" time
AltNextBefore(a) == SearchHourAngle(a.sky, HaBefore(a.direction), a.time_after)

\* if event_time is not None: return event_time
AltEventFound ==
    /\ alt.pc = "loop"
    /\ AltEventTime(alt).result # "None"
    /\ LET r == AltEventTime(alt)
       IN  alt' = [alt EXCEPT !.pc = r.pc, !.result = r.result, !.t = r.t]
    /\ UNCHANGED altOthers

\* if evt_before.time.ut >= time_start.ut + limitDays: return None
AltLimitReached ==
    /\ alt.pc = "loop"
    /\ AltEventTime(alt).result = "None"
    /\ AltNextBefore(alt) >= alt.startTime + alt.limitDays
    /\ alt' = [alt EXCEPT !.pc = "return", !.result = "None"]
    /\ UNCHANGED altOthers

\* go round the loop with the next "before" and "after" events
AltNextDay ==
    /\ alt.pc = "loop"
    /\ AltEventTime(alt).result = "None"
    /\ AltNextBefore(alt) < alt.startTime + alt.limitDays
    /\ LET time_before == AltNextBefore(alt)
           time_after == SearchHourAngle(alt.sky, HaAfter(alt.direction), time_before)
       IN  alt' = [alt EXCEPT !.time_before = time_before,
                              !.alt_before = Func(AltFunc(alt), time_before),
                              !.time_after = time_after,
                              !.alt_after = Func(AltFunc(alt), time_after)]
    /\ UNCHANGED altOthers

AltNext ==
    \/ AltStartAbove
    \/ AltStartBelow
    \/ AltEventFound
    \/ AltLimitReached
    \/ AltNextDay

SpecAltitude == AltInit /\ [][AltNext]_vars

(***************************************************************************)
(* Claims about SearchRiseSet and SearchAltitude.                          *)
(***************************************************************************)
\* C4: SearchRiseSet and SearchAltitude return either None or a time inside
\* the window from startTime to startTime + limitDays; an event after the
\* end of the window is never returned.
C4_EventInWindow ==
    (alt.pc = "return" /\ alt.result = "Time") =>
        /\ alt.startTime <= alt.t
        /\ alt.t <= alt.startTime + alt.limitDays

(***************************************************************************)
(* The iterating searches.  Each pass of a loop examines one candidate     *)
(* (an estimate, a full or new moon, an inferior conjunction); whether the *)
(* candidate ends the search is decided by the ephemerides, which the      *)
(* model leaves open: every pass may succeed or fail.  it.iter_count       *)
(* counts the passes begun.  The hour-angle search is run on its numbers.  *)
(***************************************************************************)
\* passes the model counts in a loop that has no limit of its own
MaxPasses == 120

\* for _ in range(10), in GeoVector
LightLimit == 10
\* while iter_count < 100, in SearchRelativeLongitude
RelLonLimit == 100
\* for _ in range(12), in SearchLunarEclipse and SearchGlobalSolarEclipse
LunationLimit == 12

Min(a, b) == IF a < b THEN a ELSE b

IterCall(kind) ==
    [kind |-> kind, pc |-> "loop", iter_count |-> 0, result |-> "pending",
     hourAngle |-> 0, time |-> 0, culm |-> 0]

HourAngleCalls ==
    {[kind |-> "hourAngle", pc |-> "call", iter_count |-> 0, result |-> "pending",
      hourAngle |-> ha, time |-> t, culm |-> c] :
        ha \in {-1, 0, 6, 12, 23, 24, NaN},
        t \in {0, 3, 2 * DayTicks + 5},
        c \in {0, DayTicks \div 3}}

IterInit ==
    /\ NoEvents
    /\ it \in {IterCall(k) : k \in {"light", "rellon", "lunar", "global",
                                     "local", "transit"}} \cup HourAngleCalls
    /\ srch = Idle
    /\ moon = Idle
    /\ alt = Idle
    /\ NoPluto
    /\ NoState

\* one more pass has begun
Pass(i) == [i EXCEPT !.iter_count = i.iter_count + 1]
\* the same where the loop keeps no count: the model stops counting at MaxPasses
PassUncounted(i) == [i EXCEPT !.iter_count = Min(i.iter_count + 1, MaxPasses)]

Returns(i, what) == [i EXCEPT !.pc = "return", !.result = what]
Raises(i, what) == [i EXCEPT !.pc = "raise", !.result = what]

(***************************************************************************)
(* GeoVector: the light-travel time loop.                                  *)
(***************************************************************************)
\* dt < 1.0e-9: return geo
LightConverged ==
    /\ it.kind = "light" /\ it.pc = "loop"
    /\ it.iter_count < LightLimit
    /\ it' = Returns(Pass(it), "Vector")
    /\ UNCHANGED iterOthers

\* ltime = ltime2, and round again
LightRetry ==
    /\ it.kind = "light" /\ it.pc = "loop"
    /\ it.iter_count + 1 < LightLimit
    /\ it' = Pass(it)
    /\ UNCHANGED iterOthers

\* the tenth estimate still differs: raise Error('Light-travel time solver did not converge')
LightExhausted ==
    /\ it.kind = "light" /\ it.pc = "loop"
    /\ it.iter_count + 1 = LightLimit
    /\ it' = Raises(Pass(it), "Error")
    /\ UNCHANGED iterOthers

(***************************************************************************)
(* SearchRelativeLongitude.                                                *)
(***************************************************************************)
\* abs(day_adjust) * _SECONDS_PER_DAY < 1.0: return time
RelLonConverged ==
    /\ it.kind = "rellon" /\ it.pc = "loop"
    /\ it.iter_count < RelLonLimit
    /\ it' = Returns(Pass(it), "Time")
    /\ UNCHANGED iterOthers

\* a new error_angle; iter_count += 1
RelLonRetry ==
    /\ it.kind = "rellon" /\ it.pc = "loop"
    /\ it.iter_count + 1 < RelLonLimit
    /\ it' = Pass(it)
    /\ UNCHANGED iterOthers

\* iter_count reaches 100: raise NoConvergeError()
RelLonExhausted ==
    /\ it.kind = "rellon" /\ it.pc = "loop"
    /\ it.iter_count + 1 = RelLonLimit
    /\ it' = Raises(Pass(it), "NoConvergeError")
    /\ UNCHANGED iterOthers

(***************************************************************************)
(* SearchLunarEclipse and SearchGlobalSolarEclipse.  SearchMoonPhase with  *)
(* limitDays = 40 finds every full and new moon (a lunation is under 30    *)
(* days), so the raise on None is left out.                                *)
(***************************************************************************)
\* shadow.r < shadow.p + _MOON_MEAN_RADIUS_KM: return LunarEclipseInfo(...)
LunarEclipseFound ==
    /\ it.kind = "lunar" /\ it.pc = "loop"
    /\ it.iter_count < LunationLimit
    /\ it' = Returns(Pass(it), "LunarEclipseInfo")
    /\ UNCHANGED iterOthers

\* fmtime = fullmoon.AddDays(10)
LunarNextMoon ==
    /\ it.kind = "lunar" /\ it.pc = "loop"
    /\ it.iter_count + 1 < LunationLimit
    /\ it' = Pass(it)
    /\ UNCHANGED iterOthers

\* raise Error('Failed to find lunar eclipse within 12 full moons.')
LunarExhausted ==
    /\ it.kind = "lunar" /\ it.pc = "loop"
    /\ it.iter_count + 1 = LunationLimit
    /\ it' = Raises(Pass(it), "Error")
    /\ UNCHANGED iterOthers

\* shadow.r < shadow.p + _EARTH_MEAN_RADIUS_KM: return _GeoidIntersect(shadow)
GlobalEclipseFound ==
    /\ it.kind = "global" /\ it.pc = "loop"
    /\ it.iter_count < LunationLimit
    /\ it' = Returns(Pass(it), "GlobalSolarEclipseInfo")
    /\ UNCHANGED iterOthers

\* nmtime = newmoon.AddDays(10.0)
GlobalNextMoon ==
    /\ it.kind = "global" /\ it.pc = "loop"
    /\ it.iter_count + 1 < LunationLimit
    /\ it' = Pass(it)
    /\ UNCHANGED iterOthers

\* raise Error('Failed to find solar eclipse within 12 full moons.')
GlobalExhausted ==
    /\ it.kind = "global" /\ it.pc = "loop"
    /\ it.iter_count + 1 = LunationLimit
    /\ it' = Raises(Pass(it), "Error")
    /\ UNCHANGED iterOthers

(***************************************************************************)
(* SearchLocalSolarEclipse and SearchTransit: while True.                  *)
(***************************************************************************)
\* the Sun is up at partial_begin or partial_end: return eclipse
LocalEclipseFound ==
    /\ it.kind = "local" /\ it.pc = "loop"
    /\ it' = Returns(PassUncounted(it), "LocalSolarEclipseInfo")
    /\ UNCHANGED iterOthers

\* nmtime = newmoon.AddDays(10.0)
LocalNextMoon ==
    /\ it.kind = "local" /\ it.pc = "loop"
    /\ it' = PassUncounted(it)
    /\ UNCHANGED iterOthers

\* shadow.r < shadow.p: return TransitInfo(...)
TransitFound ==
    /\ it.kind = "transit" /\ it.pc = "loop"
    /\ it' = Returns(PassUncounted(it), "TransitInfo")
    /\ UNCHANGED iterOthers

\* search_time = conj.AddDays(10.0)
TransitNextConjunction ==
    /\ it.kind = "transit" /\ it.pc = "loop"
    /\ it' = PassUncounted(it)
    /\ UNCHANGED iterOthers

(***************************************************************************)
(* SearchHourAngle: its argument check, then while True.                   *)
(***************************************************************************)
HourAngleState(i) == [pc |-> "loop", time |-> i.time, iter_count |-> i.iter_count]

\* raise Error('Invalid hour angle.')
HourAngleRejected ==
    /\ it.kind = "hourAngle" /\ it.pc = "call"
    /\ HourAngleInvalid(it.hourAngle)
    /\ it' = Raises(it, "Error")
    /\ UNCHANGED iterOthers

\* iter_count = 0; time = startTime
HourAngleAccepted ==
    /\ it.kind = "hourAngle" /\ it.pc = "call"
    /\ ~HourAngleInvalid(it.hourAngle)
    /\ it' = [it EXCEPT !.pc = "loop"]
    /\ UNCHANGED iterOthers

\* the error is tolerable: return HourAngleEvent(time, hor)
HourAngleFound ==
    /\ it.kind = "hourAngle" /\ it.pc = "loop"
    /\ LET h == HourAngleBody(it, it.hourAngle, HourAngleState(it))
       IN  /\ h.pc = "return"
           /\ it' = [Returns(it, "HourAngleEvent") EXCEPT
                        !.iter_count = Min(h.iter_count, MaxPasses)]
    /\ UNCHANGED iterOthers

\* time = time.AddDays(delta_days)
HourAngleAdjust ==
    /\ it.kind = "hourAngle" /\ it.pc = "loop"
    /\ LET h == HourAngleBody(it, it.hourAngle, HourAngleState(it))
       IN  /\ h.pc = "loop"
           /\ it' = [it EXCEPT !.time = h.time,
                               !.iter_count = Min(h.iter_count, MaxPasses)]
    /\ UNCHANGED iterOthers

IterNext ==
    \/ LightConverged \/ LightRetry \/ LightExhausted
    \/ RelLonConverged \/ RelLonRetry \/ RelLonExhausted
    \/ LunarEclipseFound \/ LunarNextMoon \/ LunarExhausted
    \/ GlobalEclipseFound \/ GlobalNextMoon \/ GlobalExhausted
    \/ LocalEclipseFound \/ LocalNextMoon
    \/ TransitFound \/ TransitNextConjunction
    \/ HourAngleRejected \/ HourAngleAccepted \/ HourAngleFound \/ HourAngleAdjust

\* a call that can take a step does take it
SpecIterators == IterInit /\ [][IterNext]_vars /\ WF_vars(IterNext)

(***************************************************************************)
(* Claims about the iterating searches.                                    *)
(***************************************************************************)
IterDone == it.pc \in {"return", "raise"}

PlutoNumStates == 3
\* _PLUTO_NSTEPS: records in a segment
PlutoNSteps == 4
\* _PLUTO_DT: ticks between the records of a segment
PlutoDT == 2
\* the pull of the major bodies: acceleration is -r / PlutoPull
PlutoPull == 16
\* _PlutoStateTable[0][0], the tt of the first anchor
PlutoT0 == -5

\* _PLUTO_TIME_STEP: ticks between anchors
PlutoTimeStep == (PlutoNSteps - 1) * PlutoDT

\* _PlutoStateTable[k], as _BodyStateFromTable reads it
PlutoStateTable(k) ==
    [tt |-> PlutoT0 + k * PlutoTimeStep, r |-> 32 * k - 40, v |-> 12 - 4 * k]

\* a slot of a segment not yet assigned: None
NoneRec == [none |-> TRUE, tt |-> 0, r |-> 0, v |-> 0, a |-> 0]

\* _body_grav_calc_t(tt, r, v, a)
GravCalc(tt, r, v, a) == [none |-> FALSE, tt |-> tt, r |-> r, v |-> v, a |-> a]

\* _major_bodies_t(tt).Acceleration(pos)
Acceleration(tt, pos) == -(pos \div PlutoPull)

\* _UpdatePosition(dt, r, v, a)
UpdatePosition(dt, r, v, a) == r + dt * v + (dt * dt * a) \div 2

\* _UpdateVelocity(dt, v, a)
UpdateVelocity(dt, v, a) == v + dt * a

\* _GravSim(tt2, calc1).grav
GravSim(tt2, calc1) ==
    LET dt == tt2 - calc1.tt
        approx_pos == UpdatePosition(dt, calc1.r, calc1.v, calc1.a)
        mean_acc == (Acceleration(tt2, approx_pos) + calc1.a) \div 2
        pos == UpdatePosition(dt, calc1.r, calc1.v, mean_acc)
        vel == calc1.v + dt * mean_acc
    IN  GravCalc(tt2, pos, vel, Acceleration(tt2, pos))

\* _GravFromState(entry).grav
GravFromState(entry) ==
    GravCalc(entry.tt, entry.r, entry.v, Acceleration(entry.tt, entry.r))

\* _ClampIndex(num / den, nsteps)
ClampIndex(num, den, nsteps) ==
    LET index == num \div den
    IN  IF index < 0 THEN 0
        ELSE IF index >= nsteps THEN nsteps - 1
        ELSE index

\* tt is outside the table: _GetSegment returns None
OutsideTable(tt) ==
    tt < PlutoStateTable(0).tt \/ tt > PlutoStateTable(PlutoNumStates - 1).tt

\* seg_index, as a 1-based index of the cache
SegIndex(tt) ==
    1 + ClampIndex(tt - PlutoStateTable(0).tt, PlutoTimeStep, PlutoNumStates - 1)

\* [None] * _PLUTO_NSTEPS
EmptySegment == [i \in 1..PlutoNSteps |-> NoneRec]

\* reverse[i] for the 0-based i, simulated backwards from the upper anchor
RECURSIVE Reverse(_, _)
Reverse(last, i) ==
    IF i = PlutoNSteps - 1 THEN last
    ELSE GravSim(last.tt - (PlutoNSteps - 1 - i) * PlutoDT, Reverse(last, i + 1))

\* seg[i] after the fade-mix with reverse[i], ramp = i / (_PLUTO_NSTEPS-1)
FadeMix(fwd, rev, i) ==
    [fwd EXCEPT !.r = Round(fwd.r * (PlutoNSteps - 1 - i) + rev.r * i, PlutoNSteps - 1),
                !.v = Round(fwd.v * (PlutoNSteps - 1 - i) + rev.v * i, PlutoNSteps - 1),
                !.a = Round(fwd.a * (PlutoNSteps - 1 - i) + rev.a * i, PlutoNSteps - 1)]

\* seg[i] of the forward simulation from the lower anchor of slot idx
RECURSIVE Forward(_, _)
Forward(idx, i) ==
    IF i = 0 THEN GravFromState(PlutoStateTable(idx - 1))
    ELSE GravSim(PlutoStateTable(idx - 1).tt + i * PlutoDT, Forward(idx, i - 1))

\* the segment of slot idx as one uninterrupted _GetSegment builds it
BuiltSegment(idx) ==
    [j \in 1..PlutoNSteps |->
        IF j = 1 THEN GravFromState(PlutoStateTable(idx - 1))
        ELSE IF j = PlutoNSteps THEN GravFromState(PlutoStateTable(idx))
        ELSE FadeMix(Forward(idx, j - 1),
                     Reverse(GravFromState(PlutoStateTable(idx)), j - 1), j - 1)]

\* _CalcPlutoOneWay(entry, target_tt, dt): n steps of dt, the last onto target_tt
RECURSIVE OneWay(_, _, _)
OneWay(sim, target_tt, dt) ==
    IF sim.tt = target_tt THEN sim
    ELSE IF Abs(target_tt - sim.tt) <= Abs(dt) THEN GravSim(target_tt, sim)
    ELSE OneWay(GravSim(sim.tt + dt, sim), target_tt, dt)

CalcPlutoOneWay(entry, target_tt, dt) == OneWay(GravFromState(entry), target_tt, dt)

\* the state _CalcPluto works out for a tt outside the table
PlutoCrawl(tt) ==
    LET sim == IF tt < PlutoStateTable(0).tt
               THEN CalcPlutoOneWay(PlutoStateTable(0), tt, -PlutoDT)
               ELSE CalcPlutoOneWay(PlutoStateTable(PlutoNumStates - 1), tt, PlutoDT)
    IN  [kind |-> "StateVector", r |-> sim.r, v |-> sim.v]

\* math.floor((time.tt - seg[0].tt) / _PLUTO_DT), not clamped
LeftIndexUnclamped(seg, tt) == (tt - seg[1].tt) \div PlutoDT

\* left = _ClampIndex((time.tt - seg[0].tt) / _PLUTO_DT, _PLUTO_NSTEPS-1)
LeftIndex(seg, tt) == ClampIndex(tt - seg[1].tt, PlutoDT, PlutoNSteps - 1)

\* the state _CalcPluto works out from a segment: an AttributeError where a
\* record it reads is None
PlutoFromSegment(seg, tt) ==
    IF seg[1].none THEN [kind |-> "AttributeError", r |-> 0, v |-> 0]
    ELSE
    LET left == LeftIndex(seg, tt)
        s1 == seg[left + 1]
        s2 == seg[left + 2]
        acc == (s1.a + s2.a) \div 2
        ra == UpdatePosition(tt - s1.tt, s1.r, s1.v, acc)
        va == UpdateVelocity(tt - s1.tt, s1.v, acc)
        rb == UpdatePosition(tt - s2.tt, s2.r, s2.v, acc)
        vb == UpdateVelocity(tt - s2.tt, s2.v, acc)
        ramp == tt - s1.tt
    IN  IF s1.none \/ s2.none THEN [kind |-> "AttributeError", r |-> 0, v |-> 0]
        ELSE [kind |-> "StateVector",
              r |-> Round(ra * (PlutoDT - ramp) + rb * ramp, PlutoDT),
              v |-> Round(va * (PlutoDT - ramp) + vb * ramp, PlutoDT)]

(***************************************************************************)
(* _CalcPluto(time, helio) and _GetSegment(cache, tt), statement by        *)
(* statement, for callers that may run at the same time.  A caller's       *)
(* record holds its locals: tt, seg_index, seg (the list it builds), i,    *)
(* reverse, got (the list _GetSegment returned) and the result.            *)
(***************************************************************************)
\* callers
NumThreads == 2
\* queries one caller makes one after the other
MaxQueries == 3

Threads == 1..NumThreads

\* the tt of the queries: the table's range and two steps either side
PlutoTimes ==
    (PlutoStateTable(0).tt - 2 * PlutoDT)..
        (PlutoStateTable(PlutoNumStates - 1).tt + 2 * PlutoDT)

NoResult == [kind |-> "pending", r |-> 0, v |-> 0]

Caller(n) ==
    [pc |-> "ready", left |-> n, tt |-> 0, seg_index |-> 0, seg |-> 0, i |-> 0,
     reverse |-> EmptySegment, got |-> 0, result |-> NoResult]

\* _pluto_cache = [None] * (_PLUTO_NUM_STATES - 1)
EmptyCache == [k \in 1..(PlutoNumStates - 1) |-> 0]

\* if cache[seg_index] is None
CacheMissAlways(cache, seg_index) == TRUE
CacheMiss(cache, seg_index) == cache[seg_index] = 0

\* tt outside the table: no segment, the state is simulated from the nearest anchor
CalcPlutoOutside(t) ==
    /\ th[t].pc = "ready" /\ th[t].left > 0
    /\ \E tt \in PlutoTimes :
        /\ OutsideTable(tt)
        /\ th' = [th EXCEPT ![t].left = @ - 1, ![t].tt = tt, ![t].seg_index = 0,
                            ![t].got = 0, ![t].result = PlutoCrawl(tt)]
    /\ UNCHANGED <<pluto_cache, heap>>
    /\ UNCHANGED plutoOthers

\* cache[seg_index] is None: go on to build the segment
GetSegmentMiss(t) ==
    /\ th[t].pc = "ready" /\ th[t].left > 0
    /\ \E tt \in PlutoTimes :
        /\ ~OutsideTable(tt)
        /\ CacheMiss(pluto_cache, SegIndex(tt))
        /\ th' = [th EXCEPT ![t].left = @ - 1, ![t].tt = tt,
                            ![t].seg_index = SegIndex(tt), ![t].got = 0,
                            ![t].result = NoResult, ![t].pc = "alloc"]
    /\ UNCHANGED <<pluto_cache, heap>>
    /\ UNCHANGED plutoOthers

\* cache[seg_index] is not None: go to the return
GetSegmentHit(t) ==
    /\ th[t].pc = "ready" /\ th[t].left > 0
    /\ \E tt \in PlutoTimes :
        /\ ~OutsideTable(tt)
        /\ ~CacheMiss(pluto_cache, SegIndex(tt))
        /\ th' = [th EXCEPT ![t].left = @ - 1, ![t].tt = tt,
                            ![t].seg_index = SegIndex(tt), ![t].got = 0,
                            ![t].result = NoResult, ![t].pc = "return"]
    /\ UNCHANGED <<pluto_cache, heap>>
    /\ UNCHANGED plutoOthers

\* seg = cache[seg_index] = [None] * _PLUTO_NSTEPS
SegmentAlloc(t) ==
    /\ th[t].pc = "alloc"
    /\ heap' = Append(heap, EmptySegment)
    /\ pluto_cache' = [pluto_cache EXCEPT ![th[t].seg_index] = Len(heap) + 1]
    /\ th' = [th EXCEPT ![t].seg = Len(heap) + 1, ![t].pc = "lower"]
    /\ UNCHANGED plutoOthers

\* seg[0] = _GravFromState(_PlutoStateTable[seg_index]).grav
SegmentLower(t) ==
    /\ th[t].pc = "lower"
    /\ heap' = [heap EXCEPT ![th[t].seg][1] =
                    GravFromState(PlutoStateTable(th[t].seg_index - 1))]
    /\ th' = [th EXCEPT ![t].pc = "upper"]
    /\ UNCHANGED pluto_cache
    /\ UNCHANGED plutoOthers

\* _PlutoStateTable[seg_index], the lower anchor taken for the upper one
UpperAnchorOffByOne(seg_index) == PlutoStateTable(seg_index - 1)

\* _PlutoStateTable[seg_index + 1], for the 1-based seg_index
UpperAnchor(seg_index) == PlutoStateTable(seg_index)

\* seg[_PLUTO_NSTEPS-1] = _GravFromState(_PlutoStateTable[seg_index + 1]).grav; i = 1
SegmentUpper(t) ==
    /\ th[t].pc = "upper"
    /\ heap' = [heap EXCEPT ![th[t].seg][PlutoNSteps] =
                    GravFromState(UpperAnchor(th[t].seg_index))]
    /\ th' = [th EXCEPT ![t].pc = "forward", ![t].i = 1]
    /\ UNCHANGED pluto_cache
    /\ UNCHANGED plutoOthers

\* while i < _PLUTO_NSTEPS-1: seg[i] = _GravSim(step_tt, seg[i-1]).grav; i += 1
SegmentForward(t) ==
    /\ th[t].pc = "forward"
    /\ th[t].i < PlutoNSteps - 1
    /\ LET seg == heap[th[t].seg]
           i == th[t].i
       IN  heap' = [heap EXCEPT ![th[t].seg][i + 1] =
                        GravSim(seg[1].tt + i * PlutoDT, seg[i])]
    /\ th' = [th EXCEPT ![t].i = @ + 1]
    /\ UNCHANGED pluto_cache
    /\ UNCHANGED plutoOthers

\* the whole of reverse, a local list; i = _PLUTO_NSTEPS - 2
SegmentReverse(t) ==
    /\ th[t].pc = "forward"
    /\ th[t].i = PlutoNSteps - 1
    /\ LET last == heap[th[t].seg][PlutoNSteps]
       IN  th' = [th EXCEPT ![t].pc = "fade", ![t].i = PlutoNSteps - 2,
                            ![t].reverse =
                                [j \in 1..PlutoNSteps |->
                                    IF j = 1 THEN NoneRec ELSE Reverse(last, j - 1)]]
    /\ UNCHANGED <<pluto_cache, heap>>
    /\ UNCHANGED plutoOthers

\* while i > 0: seg[i] takes the mix of seg[i] and reverse[i], in place; i -= 1
SegmentFade(t) ==
    /\ th[t].pc = "fade"
    /\ th[t].i > 0
    /\ LET i == th[t].i
       IN  heap' = [heap EXCEPT ![th[t].seg][i + 1] =
                        FadeMix(heap[th[t].seg][i + 1], th[t].reverse[i + 1], i)]
    /\ th' = [th EXCEPT ![t].i = @ - 1,
                        ![t].pc = IF th[t].i = 1 THEN "return" ELSE "fade"]
    /\ UNCHANGED pluto_cache
    /\ UNCHANGED plutoOthers

\* the list built last, whatever the index
NewestSegment(cache, seg_index) ==
    CHOOSE s \in {cache[k] : k \in DOMAIN cache} :
        \A k \in DOMAIN cache : cache[k] <= s

\* cache[seg_index]
CachedSegment(cache, seg_index) == cache[seg_index]

\* return cache[seg_index]
GetSegmentReturn(t) ==
    /\ th[t].pc = "return"
    /\ th' = [th EXCEPT ![t].got = CachedSegment(pluto_cache, th[t].seg_index),
                        ![t].pc = "read"]
    /\ UNCHANGED <<pluto_cache, heap>>
    /\ UNCHANGED plutoOthers

\* the rest of _CalcPluto: s1 = seg[left], s2 = seg[left+1], the blend
CalcPlutoRead(t) ==
    /\ th[t].pc = "read"
    /\ th' = [th EXCEPT ![t].result = PlutoFromSegment(heap[th[t].got], th[t].tt),
                        ![t].pc = "ready"]
    /\ UNCHANGED <<pluto_cache, heap>>
    /\ UNCHANGED plutoOthers

PlutoNext ==
    \E t \in Threads :
        \/ CalcPlutoOutside(t)
        \/ GetSegmentMiss(t)
        \/ GetSegmentHit(t)
        \/ SegmentAlloc(t)
        \/ SegmentLower(t)
        \/ SegmentUpper(t)
        \/ SegmentForward(t)
        \/ SegmentReverse(t)
        \/ SegmentFade(t)
        \/ GetSegmentReturn(t)
        \/ CalcPlutoRead(t)

\* callers at the same time, one query each
PlutoInitConcurrent ==
    /\ NoEvents
    /\ pluto_cache = EmptyCache
    /\ heap = <<>>
    /\ th = [t \in Threads |-> Caller(1)]
    /\ srch = Idle /\ moon = Idle /\ alt = Idle /\ it = Idle
    /\ NoState

\* one caller, its queries one after the other
PlutoInitSequential ==
    /\ NoEvents
    /\ pluto_cache = EmptyCache
    /\ heap = <<>>
    /\ th = [t \in Threads |-> IF t = 1 THEN Caller(MaxQueries) ELSE Caller(0)]
    /\ srch = Idle /\ moon = Idle /\ alt = Idle /\ it = Idle
    /\ NoState

SpecPlutoConcurrent == PlutoInitConcurrent /\ [][PlutoNext]_vars
SpecPlutoSequential == PlutoInitSequential /\ [][PlutoNext]_vars

(***************************************************************************)
(* Claims about the Pluto segment cache.                                   *)
(***************************************************************************)
\* C7: when several callers query Pluto at the same time, every caller that
\* obtains a segment from the cache sees all of its records fully
\* constructed, never an empty or partly filled segment.
C7_ReaderSeesBuiltSegment ==
    \A t \in Threads :
        th[t].pc = "read" => heap[th[t].got] = BuiltSegment(th[t].seg_index)

\* slot k has been populated: it refers to a list that no caller is building
Populated(k) ==
    /\ pluto_cache[k] # 0
    /\ \A t \in Threads :
        ~(th[t].seg = pluto_cache[k]
            /\ th[t].pc \in {"lower", "upper", "forward", "fade"})

\* C8: once a cache slot has been populated by the first access to its
\* segment, no later query, inside or outside the table's range, reassigns
\* the slot or changes the segment it refers to.
C8_PopulatedSlotUnchanged ==
    [][\A k \in 1..(PlutoNumStates - 1) :
          Populated(k) =>
              /\ pluto_cache'[k] = pluto_cache[k]
              /\ heap'[pluto_cache[k]] = heap[pluto_cache[k]]]_vars

\* a later query reads a segment that an earlier query built, after another
\* segment was built in between
C8_Witness ==
    \E t \in Threads :
        /\ th[t].pc = "read"
        /\ th[t].seg # 0
        /\ th[t].got # th[t].seg
        /\ Populated(th[t].seg_index)
        /\ heap[th[t].got] = BuiltSegment(th[t].seg_index)

\* the state a query of tt gives when it is the first query of the process
FirstQueryResult(tt) ==
    IF OutsideTable(tt) THEN PlutoCrawl(tt)
    ELSE PlutoFromSegment(BuiltSegment(SegIndex(tt)), tt)

\* C29: the result of a Pluto query for a given time is the same whether its
\* segment was already in the cache or is built by that query, and does not
\* depend on which other times were queried before: it is the result the
\* query gives as the first one of the process.
C29_ResultOfTimeOnly ==
    \A t \in Threads :
        th[t].result.kind # "pending" =>
            /\ th[t].result.kind = "StateVector"
            /\ th[t].result = FirstQueryResult(th[t].tt)

\* the third query of a caller is answered from a segment that an earlier
\* query built, another segment having been built since
C29_Witness ==
    \E t \in Threads :
        /\ th[t].pc = "ready"
        /\ th[t].left = 0
        /\ th[t].result.kind = "StateVector"
        /\ th[t].got # 0
        /\ th[t].seg # th[t].got
        /\ th[t].got < th[t].seg

\* the end records of the list of slot k have been assigned
EndsAssigned(k) ==
    /\ pluto_cache[k] # 0
    /\ \A t \in Threads :
        ~(th[t].seg = pluto_cache[k] /\ th[t].pc \in {"lower", "upper"})

\* C30: in every constructed Pluto segment the first and the last record are
\* the records of the two enclosing anchors of the table, exactly (the
\* forward simulation and the fade mix change interior records only), so
\* adjacent segments agree at the boundary they share.
C30_EndsAreAnchors ==
    \A k \in 1..(PlutoNumStates - 1) :
        EndsAssigned(k) =>
            LET seg == heap[pluto_cache[k]]
            IN  /\ seg[1] = GravFromState(PlutoStateTable(k - 1))
                /\ seg[PlutoNSteps] = GravFromState(PlutoStateTable(k))
                /\ (k + 1 \in DOMAIN pluto_cache /\ EndsAssigned(k + 1)) =>
                       seg[PlutoNSteps] = heap[pluto_cache[k + 1]][1]

\* two adjacent segments have been constructed, interior records faded
C30_Witness ==
    \E k \in 1..(PlutoNumStates - 2) :
        /\ Populated(k)
        /\ Populated(k + 1)
        /\ heap[pluto_cache[k]] = BuiltSegment(k)
        /\ heap[pluto_cache[k + 1]] = BuiltSegment(k + 1)
        /\ heap[pluto_cache[k]][2] # Forward(k, 1)

\* C28: for every tt inside the table's range, both end points included,
\* _GetSegment selects a cache slot index in 0.._PLUTO_NUM_STATES-2 and
\* _CalcPluto reads the records left and left+1 of the segment with
\* 0 <= left and left+1 <= _PLUTO_NSTEPS-1: no lookup goes out of bounds.
\* (seg_index is kept 1-based in th.)
C28_IndexesInBounds ==
    \A t \in Threads :
        /\ th[t].pc \in {"alloc", "lower", "upper", "forward", "fade", "return", "read"} =>
              /\ ~OutsideTable(th[t].tt)
              /\ th[t].seg_index - 1 \in 0..(PlutoNumStates - 2)
              /\ th[t].seg_index \in DOMAIN pluto_cache
        /\ th[t].pc = "read" =>
              LET left == LeftIndex(heap[th[t].got], th[t].tt)
              IN  /\ 0 <= left
                  /\ left + 1 <= PlutoNSteps - 1
                  /\ left + 2 \in DOMAIN heap[th[t].got]

\* a query at the last instant of the table reads the last two records of
\* the last segment
C28_Witness ==
    \E t \in Threads :
        /\ th[t].pc = "read"
        /\ th[t].tt = PlutoStateTable(PlutoNumStates - 1).tt
        /\ th[t].seg_index = PlutoNumStates - 1
        /\ LeftIndex(heap[th[t].got], th[t].tt) = PlutoNSteps - 2

(***************************************************************************)
(* Time objects and the etilt cache.  times.list holds the Time objects in *)
(* the order of their construction; times.tilts counts the _e_tilt objects *)
(* constructed, so that each one is told from an equal one built later.    *)
(***************************************************************************)
\* Time objects in a run
MaxTimes == 3
\* period and amplitude of the nutation, in ticks and angle units
NutationPeriod == 24
NutationAmp == 180
\* mean obliquity at tt = 0, and the ticks over which it falls by one unit
MeanObliq0 == 1500
MeanObliqDen == 4

\* etilt = None
NoTilt == [none |-> TRUE, obj |-> 0, tt |-> 0, dpsi |-> 0, deps |-> 0,
           mobl |-> 0, tobl |-> 0, ee |-> 0]

\* _mean_obliq(tt)
MeanObliq(tt) == MeanObliq0 - tt \div MeanObliqDen

\* _e_tilt(time), as the obj-th object of its class
ETilt(tt, obj) ==
    LET dpsi == Wave(tt, NutationPeriod, NutationAmp)
        deps == Wave(tt + NutationPeriod \div 4, NutationPeriod, NutationAmp \div 2)
        mobl == MeanObliq(tt)
    IN  [none |-> FALSE, obj |-> obj, tt |-> tt, dpsi |-> dpsi, deps |-> deps,
         mobl |-> mobl, tobl |-> mobl + deps \div 60,
         ee |-> (dpsi * 11) \div (12 * 15)]

\* Time(ut): Time.__init__ with tt = None
Time(ut) == [ut |-> ut, tt |-> TerrestrialTime(ut), etilt |-> NoTilt]

\* if self.etilt is None
EtiltMissingAlways(tm) == TRUE
EtiltMissing(tm) == tm.etilt.none

NoTimes == [list |-> <<>>, tilts |-> 0]
NoRet == [kind |-> "none", id |-> 0]

TimeIds == 1..Len(times.list)

\* a call of the constructor
TimeNew ==
    /\ Len(times.list) < MaxTimes
    /\ \E ut \in {0, 5 * DayTicks} :
        times' = [times EXCEPT !.list = Append(@, Time(ut))]
    /\ ret' = [kind |-> "Time", id |-> Len(times.list) + 1]
    /\ UNCHANGED glob
    /\ UNCHANGED stateOthers

\* Time.AddDays(days): return Time(self.ut + days)
TimeAddDays ==
    /\ Len(times.list) < MaxTimes
    /\ \E id \in TimeIds, days \in {-1, DayTicks} :
        times' = [times EXCEPT !.list = Append(@, Time(times.list[id].ut + days))]
    /\ ret' = [kind |-> "Time", id |-> Len(times.list) + 1]
    /\ UNCHANGED glob
    /\ UNCHANGED stateOthers

\* Time._etilt(), as _nutation_rot, _sidereal_time and SunPosition call it
TimeEtilt ==
    /\ \E id \in TimeIds :
        IF EtiltMissing(times.list[id])
        THEN /\ times' = [times EXCEPT
                            !.tilts = @ + 1,
                            !.list[id].etilt = ETilt(times.list[id].tt, times.tilts + 1)]
             /\ ret' = [kind |-> "e_tilt", id |-> times.tilts + 1]
        ELSE /\ times' = times
             /\ ret' = [kind |-> "e_tilt", id |-> times.list[id].etilt.obj]
    /\ UNCHANGED glob
    /\ UNCHANGED stateOthers

TimeNext == TimeNew \/ TimeAddDays \/ TimeEtilt

TimeInit ==
    /\ NoEvents
    /\ times = NoTimes
    /\ ret = NoRet
    /\ glob = Idle
    /\ srch = Idle /\ moon = Idle /\ alt = Idle /\ it = Idle
    /\ NoPluto

SpecTime == TimeInit /\ [][TimeNext]_vars

(***************************************************************************)
(* Claims about the etilt cache of a Time.                                 *)
(***************************************************************************)
\* C10: the cached tilt record of a Time is set once: after it becomes
\* non-None no operation on that Time replaces it, and it always equals the
\* record computed from that Time's tt.
C10_EtiltSetOnce ==
    [][\A id \in TimeIds :
          /\ ~times.list[id].etilt.none =>
                times'.list[id].etilt = times.list[id].etilt
          /\ ~times'.list[id].etilt.none =>
                times'.list[id].etilt =
                    ETilt(times'.list[id].tt, times'.list[id].etilt.obj)]_vars

\* _etilt() has been called on a Time whose record was already cached, after
\* another Time was made from it by AddDays
C10_Witness ==
    /\ ret.kind = "e_tilt"
    /\ \E id \in TimeIds :
        /\ times.list[id].etilt.obj = ret.id
        /\ ret.id < times.tilts
    /\ \E a \in TimeIds, b \in TimeIds :
        /\ a < b
        /\ times.list[b].ut # times.list[a].ut
        /\ ~times.list[a].etilt.none

(***************************************************************************)
(* The module's globals.  _ConstelRot and _Epoch2000 are 0 for None and    *)
(* otherwise the number of the assignment that set them.                   *)
(***************************************************************************)
\* calls of _CalcMoon in a run
MaxMoonCalcs == 2

\* _CalcMoonCount = 0; _ConstelRot = None; _Epoch2000 = None
NoGlobals == [CalcMoonCount |-> 0, ConstelRot |-> 0, Epoch2000 |-> 0]

\* if _ConstelRot is None
ConstelMissingAlways(g) == TRUE
ConstelMissing(g) == g.ConstelRot = 0

\* _CalcMoon(time): _CalcMoonCount += 1, then the position of the Moon
CalcMoon ==
    /\ glob.CalcMoonCount < MaxMoonCalcs
    /\ \E id \in TimeIds :
        ret' = [kind |-> "moonpos", id |-> id]
    /\ glob' = [glob EXCEPT !.CalcMoonCount = @ + 1]
    /\ UNCHANGED times
    /\ UNCHANGED stateOthers

\* Constellation(ra, dec), dec in degrees
Constellation ==
    /\ \E dec \in {-91, -90, 0, 90, 91} :
        IF dec < -90 \/ dec > 90
        THEN /\ ret' = [kind |-> "Error", id |-> 0]
             /\ glob' = glob
        ELSE IF ConstelMissing(glob)
        THEN /\ glob' = [glob EXCEPT !.ConstelRot = @ + 1, !.Epoch2000 = @ + 1]
             /\ ret' = [kind |-> "ConstellationInfo", id |-> glob.ConstelRot + 1]
        ELSE /\ glob' = glob
             /\ ret' = [kind |-> "ConstellationInfo", id |-> glob.ConstelRot]
    /\ UNCHANGED times
    /\ UNCHANGED stateOthers

\* two Time objects, no global set, an empty Pluto cache and one caller of
\* _CalcPluto with two queries to make
StateInit ==
    /\ NoEvents
    /\ glob = NoGlobals
    /\ times = [list |-> <<Time(0), Time(5 * DayTicks)>>, tilts |-> 0]
    /\ ret = NoRet
    /\ pluto_cache = EmptyCache
    /\ heap = <<>>
    /\ th = [t \in Threads |-> IF t = 1 THEN Caller(2) ELSE Caller(0)]
    /\ srch = Idle /\ moon = Idle /\ alt = Idle /\ it = Idle

StateNext ==
    \/ CalcMoon
    \/ Constellation
    \/ TimeEtilt
    \/ PlutoNext

SpecState == StateInit /\ [][StateNext]_vars

MaxQuarters == 5
\* the chains start at QuarterStarts instants spread over one month
QuarterStarts == 24

\* SearchMoonPhase as a function of its arguments
SearchMoonPhase(targetLon, n0, a0, startTime, limitDays) ==
    LET m == [targetLon |-> targetLon, startTime |-> startTime,
              limitDays |-> limitDays, n0 |-> n0, a0 |-> a0]
    IN  IF MoonTooLate(m)
        THEN [pc |-> "return", result |-> "None", t |-> 0]
        ELSE With(Search(MoonFunc(targetLon, n0, a0),
                         MoonT1(m), MoonT2(m), MoonTolerance),
                  LAMBDA r : [pc |-> r.pc, result |-> r.result, t |-> r.t])

\* quarter = int(1 + math.floor(angle / 90.0)) % 4
QuarterAfter(angle) == (1 + angle \div Deg(90)) % 4

\* SearchMoonQuarter: the quarter that follows the phase at startTime, sought
\* within 10 days; None from the search is an InternalError
SearchMoonQuarter(n0, a0, startTime) ==
    With(QuarterAfter(MoonPhase(n0, a0, startTime)), LAMBDA quarter :
    With(SearchMoonPhase(Deg(90 * quarter), n0, a0, startTime, 10 * DayTicks), LAMBDA r :
        IF r.pc = "raise"
        THEN [pc |-> "raise", error |-> r.result, quarter |-> quarter, time |-> 0]
        ELSE IF r.result = "None"
        THEN [pc |-> "raise", error |-> "InternalError", quarter |-> quarter, time |-> 0]
        ELSE [pc |-> "return", error |-> "none", quarter |-> quarter, time |-> r.t]))

\* time = mq.time.AddDays(6.0), without the skip
QuarterResumeAtOnce(mq) == mq.time

\* time = mq.time.AddDays(6.0)
QuarterResume(mq) == AddDays(mq.time, 6 * DayTicks)

\* NextMoonQuarter: the quarter found from 6 days after mq must be the one
\* that follows mq.quarter, or the call raises InternalError
NextMoonQuarter(n0, a0, mq) ==
    With(SearchMoonQuarter(n0, a0, QuarterResume(mq)), LAMBDA next_mq :
        IF next_mq.pc = "return" /\ next_mq.quarter # (1 + mq.quarter) % 4
        THEN [next_mq EXCEPT !.pc = "raise", !.error = "InternalError"]
        ELSE next_mq)

QuarterChains ==
    {[kind |-> "quarter", pc |-> "start", startTime |-> st, n0 |-> 0, a0 |-> a0,
      calls |-> 0, error |-> "none",
      mq |-> [quarter |-> 0, time |-> 0], prev |-> [quarter |-> 0, time |-> 0]] :
        st \in {era + (k * MeanSynodicMonth) \div QuarterStarts :
                    k \in 0..(QuarterStarts - 1),
                    era \in {-20 * MeanSynodicMonth, 20 * MeanSynodicMonth}},
        a0 \in {0, AnomalisticMonth \div 3, (2 * AnomalisticMonth) \div 3}}

chainOthers ==
    <<srch, moon, alt, it, pluto_cache, heap, th, glob, times, ret, call>>

QuarterInit ==
    /\ chain \in QuarterChains
    /\ call = Idle
    /\ srch = Idle /\ moon = Idle /\ alt = Idle /\ it = Idle
    /\ NoPluto
    /\ NoState

\* mq = SearchMoonQuarter(startTime)
QuarterFirst ==
    /\ chain.kind = "quarter"
    /\ chain.pc = "start"
    /\ \E r \in {SearchMoonQuarter(chain.n0, chain.a0, chain.startTime)} :
           chain' = [chain EXCEPT !.pc = IF r.pc = "raise" THEN "raise" ELSE "have",
                                  !.error = r.error,
                                  !.mq = [quarter |-> r.quarter, time |-> r.time]]
    /\ UNCHANGED chainOthers

\* mq = NextMoonQuarter(mq)
QuarterNext ==
    /\ chain.kind = "quarter"
    /\ chain.pc = "have"
    /\ chain.calls < MaxQuarters
    /\ \E r \in {NextMoonQuarter(chain.n0, chain.a0, chain.mq)} :
           chain' = [chain EXCEPT !.pc = IF r.pc = "raise" THEN "raise" ELSE "have",
                                  !.error = r.error,
                                  !.calls = @ + 1,
                                  !.prev = chain.mq,
                                  !.mq = [quarter |-> r.quarter, time |-> r.time]]
    /\ UNCHANGED chainOthers

QuarterStep == QuarterFirst \/ QuarterNext

SpecQuarter == QuarterInit /\ [][QuarterStep]_vars

(***************************************************************************)
(* Claims about the chain of moon quarters.                                *)
(***************************************************************************)
\* C11: NextMoonQuarter(mq), for mq from SearchMoonQuarter or from
\* NextMoonQuarter, returns a quarter that is one more than mq.quarter,
\* modulo 4, at a strictly later time.
C11_QuartersAdvance ==
    chain.calls > 0 =>
        /\ chain.pc = "have"
        /\ (chain.mq.quarter - chain.prev.quarter) % 4 = 1
        /\ chain.mq.time > chain.prev.time

\* the chain has gone once round the four quarters
C11_Witness ==
    /\ chain.pc = "have"
    /\ chain.calls >= 4
    /\ chain.mq.quarter = chain.prev.quarter - 3

(***************************************************************************)
(* SearchLunarApsis, NextLunarApsis, SearchPlanetApsis, NextPlanetApsis.   *)
(***************************************************************************)
\* a chain of apsides is followed for MaxApsides calls of Next...Apsis
MaxApsides == 3
\* the chains start at ApsisStarts instants spread over one orbit
ApsisStarts == 8
\* orbital period, in ticks, of the planet searched by the distance slope
PlanetPeriod == 96
\* orbital period, in ticks, of the planet searched by sampling; 5/6 of it
\* is a multiple of BrutePoints - 1
BrutePeriod == 1188

\* ApsisKind
Pericenter == 0
Apocenter == 1
Invalid == 2

\* npoints of _BruteSearchPlanetApsis and of _PlanetExtreme
BrutePoints == 100
ExtremePoints == 10

SlopeFunc(o, direction) ==
    [kind |-> "slope", a |-> direction, b |-> o.period, c |-> o.apo,
     d |-> 0, lo |-> 0, hi |-> 0]

ApsisRaise(e) == [pc |-> "raise", error |-> e, kind |-> Invalid, time |-> 0]

\* the Apsis made of what Search returned; None is an InternalError
ApsisFound(r, kind) ==
    IF r.pc = "raise" THEN ApsisRaise(r.result)
    ELSE IF r.result = "None" THEN ApsisRaise("InternalError")
    ELSE [pc |-> "return", error |-> "none", kind |-> kind, time |-> r.t]

\* the loop of SearchLunarApsis and of SearchPlanetApsis: steps of increment
\* from t1 until the slope changes polarity, within limit of the start
RECURSIVE ApsisScan(_, _, _, _, _)
ApsisScan(o, increment, limit, t1, iter_count) ==
    IF ~(iter_count * increment < limit)
    THEN ApsisRaise("InternalError")
    ELSE LET t2 == AddDays(t1, increment)
             m1 == DistanceSlope(o, 1, t1)
             m2 == DistanceSlope(o, 1, t2)
         IN  IF m1 * m2 <= 0
             THEN IF m1 < 0 \/ m2 > 0
                  THEN ApsisFound(Search(SlopeFunc(o, 1), t1, t2, 1), Pericenter)
                  ELSE IF m1 > 0 \/ m2 < 0
                  THEN ApsisFound(Search(SlopeFunc(o, -1), t1, t2, 1), Apocenter)
                  ELSE ApsisRaise("InternalError")
             ELSE ApsisScan(o, increment, limit, t2, iter_count + 1)

\* increment = 5.0 days, while iter_count * increment < 2.0 * _MEAN_SYNODIC_MONTH
SearchLunarApsis(o, startTime) ==
    ApsisScan(o, 5 * DayTicks, 2 * MeanSynodicMonth, startTime, 0)

\* the sample, among npoints taken every span/(npoints - 1) from start, where
\* direction * distance is greatest; the first one when several are
BestSample(o, direction, start, spanNum, spanDen, npoints) ==
    LET at(i) == AddDays(start, Round(i * spanNum, (npoints - 1) * spanDen))
        d(i) == direction * Distance(o, at(i))
    IN  CHOOSE i \in 0..(npoints - 1) :
            /\ \A j \in 0..(npoints - 1) : d(j) <= d(i)
            /\ \A j \in 0..(i - 1) : d(j) < d(i)

\* _PlanetExtreme: narrows dayspan = spanNum/spanDen around the extreme
\* sample until the interval between samples is below the resolution
RECURSIVE PlanetExtreme(_, _, _, _, _)
PlanetExtreme(o, kind, start_time, spanNum, spanDen) ==
    LET direction == IF kind = Apocenter THEN 1 ELSE -1
        den == (ExtremePoints - 1) * spanDen      \* interval = spanNum / den
        best_i == BestSample(o, direction, start_time, spanNum, spanDen,
                             ExtremePoints)
    IN  IF spanNum < den
        THEN [pc |-> "return", error |-> "none", kind |-> kind,
              time |-> AddDays(start_time, Round(spanNum, 2 * den))]
        ELSE PlanetExtreme(o, kind,
                           AddDays(start_time, Round((best_i - 1) * spanNum, den)),
                           2 * spanNum, den)

\* _BruteSearchPlanetApsis: the least and the greatest of npoints distances
\* from 30 degrees before startTime to 270 degrees after it, refined, and
\* the earlier of the two that is not before startTime
BruteSearchPlanetApsis(o, startTime) ==
    LET t1 == AddDays(startTime, -Round(o.period * 30, 360))
        t2 == AddDays(startTime, Round(o.period * 270, 360))
        span == t2 - t1
        den == BrutePoints - 1                    \* interval = span / den
        at(i) == AddDays(t1, Round(i * span, den))
        t_min == at(BestSample(o, -1, t1, span, 1, BrutePoints))
        t_max == at(BestSample(o, 1, t1, span, 1, BrutePoints))
        perihelion == PlanetExtreme(o, Pericenter,
                                    AddDays(t_min, Round(-2 * span, den)),
                                    4 * span, den)
        aphelion == PlanetExtreme(o, Apocenter,
                                  AddDays(t_max, Round(-2 * span, den)),
                                  4 * span, den)
        start_tt == TerrestrialTime(startTime)
        peri_tt == TerrestrialTime(perihelion.time)
        aph_tt == TerrestrialTime(aphelion.time)
    IN  IF peri_tt >= start_tt
        THEN IF start_tt <= aph_tt /\ aph_tt < peri_tt
             THEN aphelion
             ELSE perihelion
        ELSE IF aph_tt >= start_tt
        THEN aphelion
        ELSE ApsisRaise("InternalError")

\* SearchPlanetApsis: Neptune and Pluto are searched by sampling, the other
\* planets by the slope in steps of a sixth of the orbital period
SearchPlanetApsis(o, startTime) ==
    IF o.brute
    THEN BruteSearchPlanetApsis(o, startTime)
    ELSE ApsisScan(o, o.period \div 6, 2 * o.period, startTime, 0)

\* apsis.kind not in [ApsisKind.Apocenter, ApsisKind.Pericenter]
KindInvalid(kind) == kind \notin {Apocenter, Pericenter}

\* the test of the kinds, left out
SameKindAccepted(next_kind, kind) == FALSE

\* next_apsis.kind.value + apsis.kind.value != 1
SameKind(next_kind, kind) == next_kind + kind # 1

\* NextLunarApsis: the search resumes 11 days after apsis.time
NextLunarApsis(o, apsis) ==
    LET next_apsis == SearchLunarApsis(o, AddDays(apsis.time, 11 * DayTicks))
    IN  IF next_apsis.pc = "raise" THEN next_apsis
        ELSE IF KindInvalid(apsis.kind) THEN ApsisRaise("Error")
        ELSE IF SameKind(next_apsis.kind, apsis.kind) THEN ApsisRaise("InternalError")
        ELSE next_apsis

\* NextPlanetApsis: the search resumes a quarter of an orbit after apsis.time
NextPlanetApsis(o, apsis) ==
    IF KindInvalid(apsis.kind) THEN ApsisRaise("Error")
    ELSE LET next_apsis ==
                 SearchPlanetApsis(o, AddDays(apsis.time, Round(o.period, 4)))
         IN  IF next_apsis.pc = "raise" THEN next_apsis
             ELSE IF SameKind(next_apsis.kind, apsis.kind)
             THEN ApsisRaise("InternalError")
             ELSE next_apsis

\* the orbits: the Moon's, a planet's searched by slope, a planet's sampled
Orbits ==
    [lunar |-> [period |-> AnomalisticMonth, brute |-> FALSE],
     planet |-> [period |-> PlanetPeriod, brute |-> FALSE],
     brute |-> [period |-> BrutePeriod, brute |-> TRUE]]

ApsisTimes(period) ==
    {era + (k * period) \div ApsisStarts :
        k \in 0..(ApsisStarts - 1), era \in {-3 * period, 3 * period}}

\* a chain starts with a Search...Apsis call, or with an Apsis the caller
\* made: any kind at any time
ApsisChains ==
    UNION {{[kind |-> body, pc |-> pc, startTime |-> st,
             orbit |-> [period |-> Orbits[body].period, apo |-> apo,
                        brute |-> Orbits[body].brute],
             calls |-> 0, error |-> "none",
             apsis |-> [kind |-> k, time |-> st],
             prev |-> [kind |-> Invalid, time |-> st]] :
                st \in ApsisTimes(Orbits[body].period),
                apo \in {0, Orbits[body].period \div 3},
                pc \in {"start", "have"},
                k \in {Pericenter, Apocenter, Invalid}} :
           body \in {"lunar", "planet", "brute"}}

ApsisInit ==
    /\ chain \in {c \in ApsisChains : c.pc = "start" => c.apsis.kind = Invalid}
    /\ call = Idle
    /\ srch = Idle /\ moon = Idle /\ alt = Idle /\ it = Idle
    /\ NoPluto
    /\ NoState

ApsisOutcome(r, n) ==
    [chain EXCEPT !.pc = IF r.pc = "raise" THEN "raise" ELSE "have",
                  !.error = r.error,
                  !.calls = n,
                  !.prev = IF n = 0 THEN chain.prev ELSE chain.apsis,
                  !.apsis = [kind |-> r.kind, time |-> r.time]]

\* apsis = SearchLunarApsis(startTime)
LunarApsisFirst ==
    /\ chain.kind = "lunar"
    /\ chain.pc = "start"
    /\ chain' = ApsisOutcome(SearchLunarApsis(chain.orbit, chain.startTime), 0)
    /\ UNCHANGED chainOthers

\* apsis = SearchPlanetApsis(body, startTime)
PlanetApsisFirst ==
    /\ chain.kind \in {"planet", "brute"}
    /\ chain.pc = "start"
    /\ chain' = ApsisOutcome(SearchPlanetApsis(chain.orbit, chain.startTime), 0)
    /\ UNCHANGED chainOthers

\* apsis = NextLunarApsis(apsis)
LunarApsisNext ==
    /\ chain.kind = "lunar"
    /\ chain.pc = "have"
    /\ chain.calls < MaxApsides
    /\ chain' = ApsisOutcome(NextLunarApsis(chain.orbit, chain.apsis),
                             chain.calls + 1)
    /\ UNCHANGED chainOthers

\* apsis = NextPlanetApsis(body, apsis)
PlanetApsisNext ==
    /\ chain.kind \in {"planet", "brute"}
    /\ chain.pc = "have"
    /\ chain.calls < MaxApsides
    /\ chain' = ApsisOutcome(NextPlanetApsis(chain.orbit, chain.apsis),
                             chain.calls + 1)
    /\ UNCHANGED chainOthers

ApsisStep ==
    \/ LunarApsisFirst
    \/ PlanetApsisFirst
    \/ LunarApsisNext
    \/ PlanetApsisNext

SpecApsis == ApsisInit /\ [][ApsisStep]_vars

(***************************************************************************)
(* Claims about the chain of apsides.                                      *)
(***************************************************************************)
\* C12: an apsis returned by NextLunarApsis or NextPlanetApsis has the
\* opposite kind of the apsis passed in: one is Pericenter and the other
\* Apocenter.
C12_ApsidesAlternate ==
    (chain.calls > 0 /\ chain.pc = "have") =>
        {chain.apsis.kind, chain.prev.kind} = {Pericenter, Apocenter}

\* a chain of MaxApsides calls whose last apsis differs in kind from the one before
C12_Witness ==
    /\ chain.pc = "have"
    /\ chain.calls = MaxApsides
    /\ chain.apsis.kind # chain.prev.kind

(***************************************************************************)
(* The calendar of datetime.datetime: the proleptic Gregorian calendar,    *)
(* days counted from day 1 = 0001-01-01.                                   *)
(***************************************************************************)
IsLeap(year) == year % 4 = 0 /\ (year % 100 # 0 \/ year % 400 = 0)

DaysInMonth(year, month) ==
    IF month = 2 THEN (IF IsLeap(year) THEN 29 ELSE 28)
    ELSE IF month \in {4, 6, 9, 11} THEN 30 ELSE 31

DaysBeforeYear(year) ==
    LET y == year - 1
    IN  y * 365 + y \div 4 - y \div 100 + y \div 400

RECURSIVE DaysBeforeMonth(_, _)
DaysBeforeMonth(year, month) ==
    IF month <= 1 THEN 0
    ELSE DaysBeforeMonth(year, month - 1) + DaysInMonth(year, month - 1)

Ordinal(year, month, day) ==
    DaysBeforeYear(year) + DaysBeforeMonth(year, month) + day

\* ut = (d - _EPOCH).total_seconds() / 86400, in ticks, for the datetime d
\* of a valid date and a time of day of tod/86400 day; _EPOCH is the noon
\* of 2000-01-01
CalendarUt(year, month, day, tod) ==
    (Ordinal(year, month, day) - Ordinal(2000, 1, 1)) * DayTicks
        + Round(tod * DayTicks, 86400) - Round(DayTicks, 2)

(***************************************************************************)
(* SearchSunLongitude, _FindSeasonChange and Seasons.                      *)
(***************************************************************************)
\* the years of Seasons the model calls it with
FirstYear == 1800
LastYear == 2100

SunFunc(targetLon) ==
    [kind |-> "sun", a |-> 0, b |-> 0, c |-> targetLon, d |-> 0, lo |-> 0, hi |-> 0]

\* t2 = startTime.AddDays(limitDays); Search(_sun_offset, targetLon, startTime, t2, 1.0)
SearchSunLongitude(targetLon, startTime, limitDays) ==
    Search(SunFunc(targetLon), startTime, AddDays(startTime, limitDays), 1)

\* startTime = Time.Make(year, month, day, 0, 0, 0), the month and day ignored
SeasonStartNewYear(year, month, day) == CalendarUt(year, 1, 1, 0)

\* startTime = Time.Make(year, month, day, 0, 0, 0)
SeasonStart(year, month, day) == CalendarUt(year, month, day, 0)

\* _FindSeasonChange: the longitude is sought for 4 days from the midnight
\* that starts the given date; None is an InternalError
FindSeasonChange(targetLon, year, month, day) ==
    With(SeasonStart(year, month, day), LAMBDA startTime :
    With(SearchSunLongitude(Deg(targetLon), startTime, 4 * DayTicks), LAMBDA r :
        IF r.pc = "raise" THEN [pc |-> "raise", error |-> r.result, t |-> 0]
        ELSE IF r.result = "None"
        THEN [pc |-> "raise", error |-> "InternalError", t |-> 0]
        ELSE [pc |-> "return", error |-> "none", t |-> r.t]))

\* Seasons(year): the first of the four searches that raises ends the call
Seasons(year) ==
    With(<<FindSeasonChange(0, year, 3, 19), FindSeasonChange(90, year, 6, 19),
           FindSeasonChange(180, year, 9, 21), FindSeasonChange(270, year, 12, 20)>>,
         LAMBDA all :
        LET failed == {i \in 1..4 : all[i].pc = "raise"}
        IN  IF failed # {}
            THEN [pc |-> "raise",
                  error |-> all[CHOOSE i \in failed : \A j \in failed : i <= j].error,
                  mar_equinox |-> 0, jun_solstice |-> 0,
                  sep_equinox |-> 0, dec_solstice |-> 0]
            ELSE [pc |-> "return", error |-> "none",
                  mar_equinox |-> all[1].t, jun_solstice |-> all[2].t,
                  sep_equinox |-> all[3].t, dec_solstice |-> all[4].t])

callOthers ==
    <<srch, moon, alt, it, pluto_cache, heap, th, glob, times, ret, chain>>

\* every variable but call is idle
OnlyCall ==
    /\ chain = Idle
    /\ srch = Idle /\ moon = Idle /\ alt = Idle /\ it = Idle
    /\ NoPluto
    /\ NoState

SeasonsInit ==
    /\ call \in {[fn |-> "Seasons", pc |-> "call", year |-> y, out |-> Idle] :
                    y \in FirstYear..LastYear}
    /\ OnlyCall

\* out = Seasons(year)
SeasonsCall ==
    /\ call.fn = "Seasons"
    /\ call.pc = "call"
    /\ call' = [call EXCEPT !.pc = "done", !.out = Seasons(call.year)]
    /\ UNCHANGED callOthers

SpecSeasons == SeasonsInit /\ [][SeasonsCall]_vars

(***************************************************************************)
(* Claims about Seasons.                                                   *)
(***************************************************************************)
\* C13: for every year in 1800..2100, Seasons(year) returns times with
\* mar_equinox < jun_solstice < sep_equinox < dec_solstice.
C13_SeasonsInOrder ==
    (call.fn = "Seasons" /\ call.pc = "done") =>
        /\ call.out.pc = "return"
        /\ call.out.mar_equinox < call.out.jun_solstice
        /\ call.out.jun_solstice < call.out.sep_equinox
        /\ call.out.sep_equinox < call.out.dec_solstice

\* Seasons has returned for the last year, the December solstice on the
\* 20th or later
C13_Witness ==
    /\ call.fn = "Seasons"
    /\ call.pc = "done"
    /\ call.year = LastYear
    /\ call.out.pc = "return"
    /\ call.out.dec_solstice >= CalendarUt(LastYear, 12, 20, 0)

(***************************************************************************)
(* SearchRelativeLongitude(body, targetRelLon, startTime) for a planet.    *)
(***************************************************************************)
\* abs(day_adjust) * _SECONDS_PER_DAY < 1.0: the relative longitude is known to
\* one angle unit, for which the estimate of the slowest of the planets
\* searched is a day_adjust of up to RelLonTolerance ticks
RelLonTolerance == 3

\* 0.5 < ratio < 2.0 for ratio = n/d
RatioUsable(n, d) ==
    IF d > 0 THEN 2 * n > d /\ n < 2 * d
    ELSE IF d < 0 THEN 2 * n < d /\ n > 2 * d
    ELSE FALSE

\* the while loop: at most RelLonLimit passes
RECURSIVE RelLonLoop(_, _, _, _, _, _, _)
RelLonLoop(b, targetRelLon, direction, time, error_angle, syn, iter_count) ==
    IF ~(iter_count < RelLonLimit)
    THEN [pc |-> "raise", result |-> "NoConvergeError", t |-> 0]
    ELSE LET adjust == -error_angle * syn         \* day_adjust * Deg(360)
             later == AddDays(time, Round(adjust, Deg(360)))
             next_angle == RelLonOffset(b, later, direction, targetRelLon)
         IN  IF Abs(adjust) < RelLonTolerance * Deg(360)
             THEN [pc |-> "return", result |-> "Time", t |-> later]
             ELSE RelLonLoop(b, targetRelLon, direction, later, next_angle,
                             IF /\ Abs(error_angle) < Deg(30)
                                /\ error_angle # next_angle
                                /\ RatioUsable(error_angle, error_angle - next_angle)
                             THEN Round(syn * error_angle, error_angle - next_angle)
                             ELSE syn,
                             iter_count + 1)

SearchRelativeLongitude(b, targetRelLon, startTime) ==
    LET direction == IF b.period > EarthBody.period THEN 1 ELSE -1
        error_angle == RelLonOffset(b, startTime, direction, targetRelLon)
    IN  RelLonLoop(b, targetRelLon, direction, startTime,
                   IF error_angle > 0 THEN error_angle - Deg(360) ELSE error_angle,
                   SynodicPeriod(b), 0)

(***************************************************************************)
(* SearchMaxElongation(body, startTime).                                   *)
(***************************************************************************)
\* the searches start at ElongStarts instants spread over a synodic period
ElongStarts == 16

ElongFunc(b) ==
    [kind |-> "elong", a |-> b, b |-> 0, c |-> 0, d |-> 0, lo |-> 0, hi |-> 0]

\* the window of relative longitudes and the days to go back before seeking it
ElongWindow(rlon, s1, s2, syn) ==
    IF -s1 <= rlon /\ rlon < s1
    THEN [adjust_days |-> 0, rlon_lo |-> s1, rlon_hi |-> s2]
    ELSE IF rlon > s2 \/ rlon < -s2
    THEN [adjust_days |-> 0, rlon_lo |-> -s2, rlon_hi |-> -s1]
    ELSE IF rlon >= 0
    THEN [adjust_days |-> -Round(syn, 4), rlon_lo |-> s1, rlon_hi |-> s2]
    ELSE [adjust_days |-> -Round(syn, 4), rlon_lo |-> -s2, rlon_hi |-> -s1]

ElongRaise(e) == [pc |-> "raise", result |-> e, t |-> 0, iter_count |-> 0]

\* while iter_count <= 2, without the test
ElongPassesLeftNever(iter_count) == FALSE

\* while iter_count <= 2
ElongPassesLeft(iter_count) == iter_count <= 2

\* one pass of the while loop and those that follow it; the function ends
\* without a return statement, that is with None, when the loop ends
RECURSIVE ElongLoop(_, _, _)
ElongLoop(b, startTime, iter_count) ==
    IF ~ElongPassesLeft(iter_count)
    THEN [pc |-> "return", result |-> "None", t |-> 0, iter_count |-> iter_count]
    ELSE
    LET rlon == LongitudeOffset(HelioLongitude(b, startTime)
                                    - HelioLongitude(EarthBody, startTime))
        w == ElongWindow(rlon, Deg(b.s1), Deg(b.s2), SynodicPeriod(b))
        t_start == AddDays(startTime, w.adjust_days)
        t1 == SearchRelativeLongitude(b, w.rlon_lo, t_start)
        t2 == SearchRelativeLongitude(b, w.rlon_hi, t1.t)
        tx == Search(ElongFunc(b), t1.t, t2.t, 1)
    IN  IF t1.pc = "raise" THEN ElongRaise(t1.result)
        ELSE IF t2.pc = "raise" THEN ElongRaise(t2.result)
        ELSE IF NegElongSlope(b, t1.t) >= 0 THEN ElongRaise("InternalError")
        ELSE IF NegElongSlope(b, t2.t) <= 0 THEN ElongRaise("InternalError")
        ELSE IF tx.pc = "raise" THEN ElongRaise(tx.result)
        ELSE IF tx.result = "None"
        THEN [pc |-> "return", result |-> "None", t |-> 0, iter_count |-> iter_count]
        ELSE IF TerrestrialTime(tx.t) >= TerrestrialTime(startTime)
        THEN [pc |-> "return", result |-> "ElongationEvent", t |-> tx.t,
              iter_count |-> iter_count]
        ELSE ElongLoop(b, AddDays(t2.t, DayTicks), iter_count + 1)

\* Mercury and Venus have their windows; any other body is an InvalidBodyError
SearchMaxElongation(b, startTime) ==
    IF b.name \in {"Mercury", "Venus"}
    THEN ElongLoop(b, startTime, 1)
    ELSE ElongRaise("InvalidBodyError")

\* the bodies the model searches, each at several places of its orbit and
\* with several relative longitudes of greatest elongation
ElongBodies ==
    {[name |-> "Mercury", period |-> (87969 * DayTicks) \div 1000,
      lon0 |-> Deg(250), peri |-> pe, ecc |-> 20, peak |-> pk,
      s1 |-> 50, s2 |-> 85] :
        pe \in {0, 500}, pk \in {56, 67, 79}}
    \cup
    {[name |-> "Venus", period |-> (224701 * DayTicks) \div 1000,
      lon0 |-> Deg(180), peri |-> pe, ecc |-> 1, peak |-> pk,
      s1 |-> 40, s2 |-> 50] :
        pe \in {0, 1500}, pk \in {42, 44, 47}}
    \cup
    {[name |-> "Mars", period |-> (686980 * DayTicks) \div 1000,
      lon0 |-> Deg(350), peri |-> 0, ecc |-> 10, peak |-> 0,
      s1 |-> 0, s2 |-> 0]}

ElongCalls ==
    {[fn |-> "SearchMaxElongation", pc |-> "call", body |-> b,
      startTime |-> era + (k * SynodicPeriod(b)) \div ElongStarts, out |-> Idle] :
        b \in ElongBodies, k \in 0..(ElongStarts - 1),
        era \in {-20000, 20000}}

ElongInit ==
    /\ call \in ElongCalls
    /\ OnlyCall

\* out = SearchMaxElongation(body, startTime)
MaxElongationCall ==
    /\ call.fn = "SearchMaxElongation"
    /\ call.pc = "call"
    /\ call' = [call EXCEPT !.pc = "done",
                            !.out = SearchMaxElongation(call.body, call.startTime)]
    /\ UNCHANGED callOthers

SpecElong == ElongInit /\ [][MaxElongationCall]_vars

(***************************************************************************)
(* Claims about SearchMaxElongation.                                       *)
(***************************************************************************)
\* C14: SearchMaxElongation for Mercury or Venus either returns an
\* elongation event whose time is not before startTime or raises an error;
\* it never returns None.
C14_EventOrError ==
    (/\ call.fn = "SearchMaxElongation"
     /\ call.pc = "done"
     /\ call.body.name \in {"Mercury", "Venus"}) =>
        \/ call.out.pc = "raise"
        \/ /\ call.out.result = "ElongationEvent"
           /\ TerrestrialTime(call.out.t) >= TerrestrialTime(call.startTime)

\* an event found in the second pass, the first one having found an event
\* before startTime
C14_Witness ==
    /\ call.fn = "SearchMaxElongation"
    /\ call.pc = "done"
    /\ call.out.pc = "return"
    /\ call.out.result = "ElongationEvent"
    /\ call.out.iter_count = 2

(***************************************************************************)
(* The boundary searches of the eclipse and transit code: _PeakEarthShadow,*)
(* _PeakMoonShadow, _PeakLocalMoonShadow, _PeakPlanetShadow,               *)
(* _LocalEclipseTransition and _ShadowSemiDurationMinutes.  The shadow     *)
(* axis passes closest at the time closest; its distance grows as the      *)
(* square of the time from it.                                             *)
(***************************************************************************)
\* ticks in a day for the shadow searches, whose windows are parts of a day
ShadowDay == 240

\* _ShadowDistanceSlope, _PlanetShadowSlope: the slope of the distance
ShadowSlope(closest) ==
    [kind |-> "poly", a |-> 0, b |-> 1, c |-> closest, d |-> 0, lo |-> 0, hi |-> 0]

\* _ShadowDiff, _LocalTransitionFunc: direction * (distance - limit)
ShadowDiff(closest, limit, direction) ==
    [kind |-> "poly", a |-> direction, b |-> 0, c |-> closest,
     d |-> -direction * limit, lo |-> 0, hi |-> 0]

\* the call fails with e; none tells whether Search had returned None
BoundaryRaise(e, none) == [pc |-> "raise", error |-> e, t |-> 0, none |-> none]

\* tx = Search(...); return shadowfunc(tx): the shadow is calculated from
\* tx.tt, which None does not have
ShadowAt(tx) ==
    IF tx.pc = "raise" THEN BoundaryRaise(tx.result, FALSE)
    ELSE IF tx.result = "None" THEN BoundaryRaise("AttributeError", TRUE)
    ELSE [pc |-> "return", error |-> "none", t |-> tx.t, none |-> FALSE]

\* the search of the slope within window of search_center_time
PeakShadow(closest, search_center_time, window) ==
    ShadowAt(Search(ShadowSlope(closest), AddDays(search_center_time, -window),
                    AddDays(search_center_time, window), 1))

\* window = 0.03 days
PeakEarthShadow(closest, search_center_time) ==
    PeakShadow(closest, search_center_time, Round(3 * ShadowDay, 100))

\* window = 0.03 days
PeakMoonShadow(closest, search_center_time) ==
    PeakShadow(closest, search_center_time, Round(3 * ShadowDay, 100))

\* window = 0.2 days
PeakLocalMoonShadow(closest, search_center_time) ==
    PeakShadow(closest, search_center_time, Round(2 * ShadowDay, 10))

\* window = 1.0 days
PeakPlanetShadow(closest, search_center_time) ==
    PeakShadow(closest, search_center_time, ShadowDay)

\* _LocalEclipseTransition: the function searched is direction * func(shadow),
\* func a limit less the distance; None is
\* Error('Local eclipse transition search failed')
LocalEclipseTransition(closest, limit, direction, t1, t2) ==
    LET search == Search(ShadowDiff(closest, limit, -direction), t1, t2, 1)
    IN  IF search.pc = "raise" THEN BoundaryRaise(search.result, FALSE)
        ELSE IF search.result = "None" THEN BoundaryRaise("Error", TRUE)
        ELSE [pc |-> "return", error |-> "none", t |-> search.t, none |-> FALSE]

\* _ShadowSemiDurationMinutes: None from either search is
\* Error('Failed to find shadow semiduration'); the result is t2.ut - t1.ut
ShadowSemiDurationMinutes(closest, center_time, radius_limit, window) ==
    LET before == AddDays(center_time, -window)
        after == AddDays(center_time, window)
        t1 == Search(ShadowDiff(closest, radius_limit, -1), before, center_time, 1)
        t2 == Search(ShadowDiff(closest, radius_limit, 1), center_time, after, 1)
    IN  IF t1.pc = "raise" THEN BoundaryRaise(t1.result, FALSE)
        ELSE IF t2.pc = "raise" THEN BoundaryRaise(t2.result, FALSE)
        ELSE IF t1.result = "None" \/ t2.result = "None"
        THEN BoundaryRaise("Error", TRUE)
        ELSE [pc |-> "return", error |-> "none", t |-> t2.t - t1.t, none |-> FALSE]

\* the calls: the closest approach inside or outside the window searched,
\* the limit reached or not within it
BoundaryCalls ==
    {[fn |-> f, pc |-> "call", center |-> c, closest |-> c + off,
      limit |-> lim, direction |-> dir, out |-> Idle] :
        f \in {"_PeakEarthShadow", "_PeakMoonShadow", "_PeakLocalMoonShadow",
               "_PeakPlanetShadow", "_LocalEclipseTransition",
               "_ShadowSemiDurationMinutes"},
        c \in {-2 * ShadowDay, 2 * ShadowDay},
        off \in {-2 * ShadowDay, -(ShadowDay \div 8), -5, 0, 5, ShadowDay \div 8,
                 2 * ShadowDay},
        lim \in {4, 4 * ShadowDay},
        dir \in {-1, 1}}

BoundaryInit ==
    /\ call \in BoundaryCalls
    /\ OnlyCall

BoundaryDone(r) ==
    /\ call.pc = "call"
    /\ call' = [call EXCEPT !.pc = "done", !.out = r]
    /\ UNCHANGED callOthers

CallPeakEarthShadow ==
    /\ call.fn = "_PeakEarthShadow"
    /\ BoundaryDone(PeakEarthShadow(call.closest, call.center))

CallPeakMoonShadow ==
    /\ call.fn = "_PeakMoonShadow"
    /\ BoundaryDone(PeakMoonShadow(call.closest, call.center))

CallPeakLocalMoonShadow ==
    /\ call.fn = "_PeakLocalMoonShadow"
    /\ BoundaryDone(PeakLocalMoonShadow(call.closest, call.center))

CallPeakPlanetShadow ==
    /\ call.fn = "_PeakPlanetShadow"
    /\ BoundaryDone(PeakPlanetShadow(call.closest, call.center))

\* the transition into the shadow is sought before its peak (direction +1),
\* the transition out of it after its peak
CallLocalEclipseTransition ==
    /\ call.fn = "_LocalEclipseTransition"
    /\ BoundaryDone(
         IF call.direction = 1
         THEN LocalEclipseTransition(call.closest, call.limit, 1,
                                     AddDays(call.center, -(ShadowDay \div 5)),
                                     call.center)
         ELSE LocalEclipseTransition(call.closest, call.limit, -1, call.center,
                                     AddDays(call.center, ShadowDay \div 5)))

\* window_minutes = 200.0
CallShadowSemiDurationMinutes ==
    /\ call.fn = "_ShadowSemiDurationMinutes"
    /\ BoundaryDone(ShadowSemiDurationMinutes(call.closest, call.center, call.limit,
                                              Round(200 * ShadowDay, 1440)))

BoundaryNext ==
    \/ CallPeakEarthShadow
    \/ CallPeakMoonShadow
    \/ CallPeakLocalMoonShadow
    \/ CallPeakPlanetShadow
    \/ CallLocalEclipseTransition
    \/ CallShadowSemiDurationMinutes

SpecBoundary == BoundaryInit /\ [][BoundaryNext]_vars

(***************************************************************************)
(* Claims about the boundary searches.                                     *)
(***************************************************************************)
\* C15: whenever one of the boundary searches (peak shadow, shadow
\* semi-duration, local eclipse transition) gets None from Search, the
\* enclosing call fails with InternalError.
C15_NoneIsInternal ==
    (call.pc = "done" /\ call.out.none) =>
        (call.out.pc = "raise" /\ call.out.error = "InternalError")

(***************************************************************************)
(* AngleBetween(a, b).  A vector lies along an axis; its one component     *)
(* that is not zero is sign * mant * 10^exp, or it is the zero vector      *)
(* (mant = 0).                                                             *)
(***************************************************************************)
\* the largest mantissa of a component
MaxMant == 9

Axes == {"x", "y", "z"}

Vectors ==
    {[axis |-> ax, sign |-> sg, mant |-> m, exp |-> e] :
        ax \in Axes, sg \in {-1, 1}, m \in {1, 5, MaxMant},
        e \in {-10, -9, -8, -5, -4, 0, 3}}
    \cup {[axis |-> "x", sign |-> 1, mant |-> 0, exp |-> 0]}

RECURSIVE Pow10(_)
Pow10(n) == IF n = 0 THEN 1 ELSE 10 * Pow10(n - 1)

\* m * 10^e < 10^-8, for m >= 0
BelowLimit(m, e) ==
    \/ m = 0
    \/ /\ e < -8
       /\ (-8 - e > 4 \/ m < Pow10(-8 - e))

\* Vector.Length() < 1.0e-8
TooShort(v) == BelowLimit(v.mant, v.exp)

\* r = a.Length() * b.Length(); r < 1.0e-8
ProductTooShort(a, b) == BelowLimit(a.mant * b.mant, a.exp + b.exp)

\* dot = (a.x*b.x + a.y*b.y + a.z*b.z) / r, which is -1, 0 or +1 for vectors
\* along axes, and the angle in degrees
AngleBetween(a, b) ==
    IF ProductTooShort(a, b)
    THEN [pc |-> "return", value |-> "BadVectorError", angle |-> 0]
    ELSE LET dot == IF a.axis = b.axis THEN a.sign * b.sign ELSE 0
         IN  [pc |-> "return", value |-> "float",
              angle |-> IF dot <= -1 THEN 180 ELSE IF dot >= 1 THEN 0 ELSE 90]

AngleInit ==
    /\ call \in {[fn |-> "AngleBetween", pc |-> "call", a |-> a, b |-> b,
                  out |-> Idle] : a \in Vectors, b \in Vectors}
    /\ OnlyCall

\* out = AngleBetween(a, b)
AngleBetweenCall ==
    /\ call.fn = "AngleBetween"
    /\ call.pc = "call"
    /\ call' = [call EXCEPT !.pc = "done", !.out = AngleBetween(call.a, call.b)]
    /\ UNCHANGED callOthers

SpecAngle == AngleInit /\ [][AngleBetweenCall]_vars

(***************************************************************************)
(* Claims about AngleBetween.                                              *)
(***************************************************************************)
\* C16: AngleBetween(a, b) fails with BadVectorError whenever a or b has a
\* length below 1e-8.
C16_ShortVectorRaises ==
    (/\ call.fn = "AngleBetween"
     /\ call.pc = "done"
     /\ (TooShort(call.a) \/ TooShort(call.b))) =>
        (call.out.pc = "raise" /\ call.out.error = "BadVectorError")

(***************************************************************************)
(* GeoVector, computed.  Times inside the loop are offsets back from the   *)
(* observation time in units of 1e-10 day, so that the 1e-9 day limit is   *)
(* LightTolerance units.  A body is given by its light-travel time at the  *)
(* observation time and by its radial speed as a fraction of the speed of  *)
(* light; a NaN observation time makes every distance NaN.                 *)
(***************************************************************************)
LightTolerance == 10

\* geo.Length() / C_AUDAY with the body at HelioVector(body, ltime),
\* ltime = time - back
LightTime(b, time, back) ==
    IF IsNaN(time) \/ IsNaN(back) THEN NaN
    ELSE b.light - ((b.speed.num * back) \div b.speed.den)

\* dt = abs(ltime2.tt - ltime.tt)
LightDt(back2, back) ==
    IF IsNaN(back2) \/ IsNaN(back) THEN NaN ELSE Abs(back2 - back)

\* a looser test, for comparison: round again until the estimates agree
LightSettledExactly(dt) == ~IsNaN(dt) /\ dt = 0

\* if dt < 1.0e-9 (False for NaN)
LightSettled(dt) == ~IsNaN(dt) /\ dt < LightTolerance

\* the bodies of the calls: the Moon and the Earth take no loop
LightBodies ==
    {[name |-> "Moon", light |-> 0, speed |-> [num |-> 0, den |-> 1]],
     [name |-> "Earth", light |-> 0, speed |-> [num |-> 0, den |-> 1]],
     [name |-> "Sun", light |-> 57755183, speed |-> [num |-> 0, den |-> 1]],
     [name |-> "Mercury", light |-> 52000000, speed |-> [num |-> 1, den |-> 10000]],
     [name |-> "Venus", light |-> 24000000, speed |-> [num |-> -1, den |-> 20000]],
     [name |-> "Mars", light |-> 90000000, speed |-> [num |-> 1, den |-> 12000]],
     [name |-> "Jupiter", light |-> 290000000, speed |-> [num |-> -1, den |-> 11000]],
     [name |-> "Saturn", light |-> 550000000, speed |-> [num |-> 1, den |-> 15000]],
     [name |-> "Uranus", light |-> 1100000000, speed |-> [num |-> 1, den |-> 14000]]}

LightTimes == {NaN} \cup {DayTicks * d : d \in 0..11}

\* GeoVector(body, time, aberration)
GeoVectorInit ==
    /\ call \in {[fn |-> "GeoVector", pc |-> "call", body |-> b, time |-> t,
                  back |-> 0, passes |-> 0, dt |-> 0, out |-> Idle] :
                     b \in LightBodies, t \in LightTimes}
    /\ OnlyCall

\* if body == Body.Moon: return GeoMoon(time)
GeoVectorMoon ==
    /\ call.fn = "GeoVector" /\ call.pc = "call"
    /\ call.body.name = "Moon"
    /\ call' = [call EXCEPT !.pc = "return", !.out = "GeoMoon"]
    /\ UNCHANGED callOthers

\* if body == Body.Earth: return Vector(0.0, 0.0, 0.0, time)
GeoVectorEarth ==
    /\ call.fn = "GeoVector" /\ call.pc = "call"
    /\ call.body.name = "Earth"
    /\ call' = [call EXCEPT !.pc = "return", !.out = "zero"]
    /\ UNCHANGED callOthers

\* ltime = time, and into the loop
GeoVectorEnter ==
    /\ call.fn = "GeoVector" /\ call.pc = "call"
    /\ call.body.name \notin {"Moon", "Earth"}
    /\ call' = [call EXCEPT !.pc = "loop", !.back = IF IsNaN(call.time) THEN NaN ELSE 0]
    /\ UNCHANGED callOthers

\* one pass of for _ in range(10): a new estimate, and return geo if it is
\* within 1e-9 day of the last one
GeoVectorPass ==
    /\ call.fn = "GeoVector" /\ call.pc = "loop"
    /\ call.passes < LightLimit
    /\ LET back2 == LightTime(call.body, call.time, call.back)
           dt == LightDt(back2, call.back)
       IN  call' = [call EXCEPT !.passes = @ + 1,
                                !.dt = dt,
                                !.back = IF LightSettled(dt) THEN @ ELSE back2,
                                !.pc = IF LightSettled(dt) THEN "return" ELSE "loop",
                                !.out = IF LightSettled(dt) THEN "geo" ELSE @]
    /\ UNCHANGED callOthers

\* the loop ran out: raise Error('Light-travel time solver did not converge')
GeoVectorFail ==
    /\ call.fn = "GeoVector" /\ call.pc = "loop"
    /\ call.passes = LightLimit
    /\ call' = [call EXCEPT !.pc = "raise", !.out = "Error"]
    /\ UNCHANGED callOthers

GeoVectorNext ==
    \/ GeoVectorMoon
    \/ GeoVectorEarth
    \/ GeoVectorEnter
    \/ GeoVectorPass
    \/ GeoVectorFail

SpecGeoVector == GeoVectorInit /\ [][GeoVectorNext]_vars

MicroPerSecond == 1000000
SecondUnits == 10 * MicroPerSecond

\* Seconds(s, u, x): the float s + u/1e6 + x/1e7
Seconds(s, u, x) == (s * MicroPerSecond + u) * (SecondUnits \div MicroPerSecond) + x

\* math.fmod(second, 1.0): the fraction, with the sign of second
Fmod1(second) ==
    IF second >= 0 THEN second % SecondUnits ELSE -((-second) % SecondUnits)

\* round(x) of a float: to the nearest integer, a tie to the even one;
\* here x = n/d
RoundHalfEven(n, d) ==
    LET a == Abs(n)
        q == a \div d
        r == a % d
        up == 2 * r > d \/ (2 * r = d /\ q % 2 = 1)
    IN  Sgn(n) * (IF up THEN q + 1 ELSE q)

\* micro = round(math.fmod(second, 1.0) * 1000000)
MakeMicro(second) == RoundHalfEven(Fmod1(second), SecondUnits \div MicroPerSecond)

\* second = math.floor(second - micro/1000000)
MakeSecond(second) ==
    (second - MakeMicro(second) * (SecondUnits \div MicroPerSecond)) \div SecondUnits

\* datetime.datetime(year, month, day, hour, minute, second, micro) raises
\* ValueError unless every field is in its range
DatetimeValid(year, month, day, hour, minute, second, micro) ==
    /\ year \in 1..9999
    /\ month \in 1..12
    /\ day \in 1..DaysInMonth(year, month)
    /\ hour \in 0..23
    /\ minute \in 0..59
    /\ second \in 0..59
    /\ micro \in 0..(MicroPerSecond - 1)

\* Time.Make(year, month, day, hour, minute, second): the outcome of the call
Make(year, month, day, hour, minute, second) ==
    LET micro == MakeMicro(second)
        sec == MakeSecond(second)
    IN  IF DatetimeValid(year, month, day, hour, minute, sec, micro)
        THEN [pc |-> "return",
              value |-> CalendarUt(year, month, day, (hour * 60 + minute) * 60 + sec),
              micro |-> micro]
        ELSE [pc |-> "raise", error |-> "ValueError"]

\* the calendar fields the model calls Time.Make with
MakeYears == {0, 2023, 2024, 10000}
MakeMonths == {0, 1, 2, 4, 12, 13}
MakeDays == {0, 1, 29, 30, 31, 32}
MakeHours == {-1, 0, 23, 24}
MakeMinutes == {-1, 0, 59, 60}
MakeSeconds ==
    {Seconds(0, 0, 0), Seconds(30, 500000, 0), Seconds(59, 999999, 4),
     Seconds(59, 999999, 6), Seconds(60, 0, 0), Seconds(0, 999999, 6),
     -Seconds(0, 500000, 0), -Seconds(1, 0, 0)}

MakeInit ==
    /\ call \in {[fn |-> "Time.Make", pc |-> "call", year |-> y, month |-> mo,
                  day |-> d, hour |-> h, minute |-> mi, second |-> sec,
                  out |-> Idle] :
                     y \in MakeYears, mo \in MakeMonths, d \in MakeDays,
                     h \in MakeHours, mi \in MakeMinutes, sec \in MakeSeconds}
    /\ OnlyCall

\* out = Time.Make(year, month, day, hour, minute, second)
MakeCall ==
    /\ call.fn = "Time.Make"
    /\ call.pc = "call"
    /\ call' = [call EXCEPT !.pc = "done",
                            !.out = Make(call.year, call.month, call.day,
                                         call.hour, call.minute, call.second)]
    /\ UNCHANGED callOthers

SpecMake == MakeInit /\ [][MakeCall]_vars

(***************************************************************************)
(* Claims about Time.Make.                                                 *)
(***************************************************************************)
\* C18: Time.Make with a month outside 1..12, a day outside 1..31, an hour
\* outside 0..23, a minute outside 0..59 or seconds outside [0, 60) fails with
\* DateTimeFormatError.
C18_OutOfRangeIsDateTimeFormat ==
    (/\ call.fn = "Time.Make"
     /\ call.pc = "done"
     /\ \/ call.month \notin 1..12
        \/ call.day \notin 1..31
        \/ call.hour \notin 0..23
        \/ call.minute \notin 0..59
        \/ call.second < 0
        \/ call.second >= Seconds(60, 0, 0)) =>
        (call.out.pc = "raise" /\ call.out.error = "DateTimeFormatError")

\* C24: for every seconds value s with 0 <= s < 60, Time.Make splits s into a
\* whole second in 0..59 and a microsecond count in 0..999999 whose sum is s
\* rounded to the nearest microsecond.
C24_SecondsSplit ==
    (/\ call.fn = "Time.Make"
     /\ call.pc = "done"
     /\ call.second >= 0
     /\ call.second < Seconds(60, 0, 0)) =>
        LET micro == MakeMicro(call.second)
            sec == MakeSecond(call.second)
        IN  /\ sec \in 0..59
            /\ micro \in 0..(MicroPerSecond - 1)
            /\ sec * MicroPerSecond + micro =
                   RoundHalfEven(call.second, SecondUnits \div MicroPerSecond)

(***************************************************************************)
(* Time.Parse.  A text is a sequence of one-character strings.             *)
(***************************************************************************)
Digits == <<"0", "1", "2", "3", "4", "5", "6", "7", "8", "9">>

IsDigit(c) == \E i \in 1..Len(Digits) : Digits[i] = c

DigitVal(c) == (CHOOSE i \in 1..Len(Digits) : Digits[i] = c) - 1

\* the character at position i, "" past the end
At(text, i) == IF i \in 1..Len(text) THEN text[i] ELSE ""

\* the text from position i on
From(text, i) == IF i > Len(text) THEN <<>> ELSE SubSeq(text, i, Len(text))

\* the length of the longest run of digits that starts at position i
RECURSIVE DigitRun(_, _)
DigitRun(text, i) ==
    IF IsDigit(At(text, i)) THEN 1 + DigitRun(text, i + 1) ELSE 0

\* [0-9]{2} at position i
TwoDigits(text, i) == IsDigit(At(text, i)) /\ IsDigit(At(text, i + 1))

\* int(group), for a group of digits
RECURSIVE IntOf(_)
IntOf(ds) ==
    IF ds = <<>> THEN 0
    ELSE IntOf(SubSeq(ds, 1, Len(ds) - 1)) * 10 + DigitVal(ds[Len(ds)])

\* the digits after the decimal point, of which the first has the weight
\* scale; digits beyond the grid are dropped
RECURSIVE FracOf(_, _)
FracOf(ds, scale) ==
    IF ds = <<>> \/ scale = 0 THEN 0
    ELSE DigitVal(Head(ds)) * scale + FracOf(Tail(ds), scale \div 10)

\* float(group 8), for ss or ss.fff
FloatOf(g) ==
    IntOf(SubSeq(g, 1, 2)) * SecondUnits + FracOf(From(g, 4), SecondUnits \div 10)

NoMatch == [ok |-> FALSE]

\* (:([0-9]{2}(\.[0-9]+)?))?Z at the end of the time of day: the group 8 of
\* a match, <<>> where the group took no part
SecondsGroup(tail) ==
    IF tail = <<"Z">> THEN [ok |-> TRUE, g8 |-> <<>>]
    ELSE IF ~(At(tail, 1) = ":" /\ TwoDigits(tail, 2)) THEN NoMatch
    ELSE IF From(tail, 4) = <<"Z">> THEN [ok |-> TRUE, g8 |-> SubSeq(tail, 2, 3)]
    ELSE LET k == DigitRun(tail, 5)
         IN  IF At(tail, 4) = "." /\ k >= 1 /\ From(tail, 5 + k) = <<"Z">>
             THEN [ok |-> TRUE, g8 |-> SubSeq(tail, 2, 4 + k)]
             ELSE NoMatch

\* (T([0-9]{2}):([0-9]{2})(:(...))?Z)? and then $
TimeGroup(rest) ==
    IF rest = <<>> THEN [ok |-> TRUE, g5 |-> <<>>, g6 |-> <<>>, g8 |-> <<>>]
    ELSE IF ~(/\ At(rest, 1) = "T" /\ TwoDigits(rest, 2)
              /\ At(rest, 4) = ":" /\ TwoDigits(rest, 5)) THEN NoMatch
    ELSE LET sec == SecondsGroup(From(rest, 7))
         IN  IF sec.ok
             THEN [ok |-> TRUE, g5 |-> SubSeq(rest, 2, 3), g6 |-> SubSeq(rest, 5, 6),
                   g8 |-> sec.g8]
             ELSE NoMatch

\* _TimeRegex.match(text): $ matches at the end of the text and before a
\* newline that ends it
TimeRegexMatch(text) ==
    LET body == IF Len(text) > 0 /\ text[Len(text)] = "\n"
                THEN SubSeq(text, 1, Len(text) - 1) ELSE text
        n == DigitRun(body, 1)
    IN  IF ~(/\ n \in 1..4
             /\ At(body, n + 1) = "-" /\ TwoDigits(body, n + 2)
             /\ At(body, n + 4) = "-" /\ TwoDigits(body, n + 5)) THEN NoMatch
        ELSE LET tod == TimeGroup(From(body, n + 7))
             IN  IF tod.ok
                 THEN [ok |-> TRUE, g1 |-> SubSeq(body, 1, n),
                       g2 |-> SubSeq(body, n + 2, n + 3),
                       g3 |-> SubSeq(body, n + 5, n + 6),
                       g5 |-> tod.g5, g6 |-> tod.g6, g8 |-> tod.g8]
                 ELSE NoMatch

\* raise DateTimeFormatError(text)
ParseRaise == [pc |-> "raise", error |-> "DateTimeFormatError"]

\* Time.Parse(text): the outcome of the call
Parse(text) ==
    LET m == TimeRegexMatch(text)
    IN  IF ~m.ok THEN ParseRaise
        ELSE LET year == IntOf(m.g1)
                 month == IntOf(m.g2)
                 day == IntOf(m.g3)
                 hour == IntOf(m.g5)
                 minute == IntOf(m.g6)
                 second == IF m.g8 = <<>> THEN 0 ELSE FloatOf(m.g8)
             IN  IF ~(1 <= month /\ month <= 12) THEN ParseRaise
                 ELSE IF ~(1 <= day /\ day <= 31) THEN ParseRaise
                 ELSE IF ~(0 <= hour /\ hour <= 23) THEN ParseRaise
                 ELSE IF ~(0 <= minute /\ minute <= 59) THEN ParseRaise
                 ELSE IF ~(0 <= second /\ second < Seconds(60, 0, 0)) THEN ParseRaise
                 ELSE Make(year, month, day, hour, minute, second)

\* the texts the model calls Time.Parse with: year - month - day and an end
YearTexts ==
    {<<"2", "0", "2", "3">>,
     <<"2", "0", "2", "4">>,
     <<"0", "0", "0", "0">>,
     <<"1">>,
     <<"2", "0", "2", "3", "1">>}

MonthTexts ==
    {<<"0", "0">>,
     <<"0", "2">>,
     <<"0", "4">>,
     <<"1", "2">>,
     <<"1", "3">>,
     <<"2">>}

DayTexts ==
    {<<"0", "0">>,
     <<"2", "9">>,
     <<"3", "0">>,
     <<"3", "1">>,
     <<"3", "2">>}

EndTexts ==
    {<<>>,
     <<"T", "0", "0", ":", "0", "0", "Z">>,
     <<"T", "2", "3", ":", "5", "9", ":", "5", "9", ".", "9", "9", "9", "9", "9", "9", "6", "Z">>,
     <<"T", "2", "3", ":", "5", "9", ":", "5", "9", ".", "9", "9", "9", "9", "9", "9", "4", "Z">>,
     <<"T", "2", "4", ":", "0", "0", "Z">>,
     <<"T", "1", "0", ":", "6", "0", "Z">>,
     <<"T", "1", "0", ":", "2", "0", ":", "6", "0", "Z">>,
     <<"T", "1", "0", ":", "2", "0", ":", "3", "0", ".", "5", "Z">>,
     <<"\n">>,
     <<"Z">>,
     <<"T", "1", "0", ":", "2", "0">>,
     <<"T", "1", "0", ":", "2", "0", ":", "3", "0", ".", "Z">>,
     <<"x">>}

ParseTexts ==
    {y \o <<"-">> \o mo \o <<"-">> \o d \o e :
        y \in YearTexts, mo \in MonthTexts, d \in DayTexts, e \in EndTexts}

ParseInit ==
    /\ call \in {[fn |-> "Time.Parse", pc |-> "call", text |-> t, out |-> Idle] :
                    t \in ParseTexts}
    /\ OnlyCall

\* out = Time.Parse(text)
ParseCall ==
    /\ call.fn = "Time.Parse"
    /\ call.pc = "call"
    /\ call' = [call EXCEPT !.pc = "done", !.out = Parse(call.text)]
    /\ UNCHANGED callOthers

SpecParse == ParseInit /\ [][ParseCall]_vars

(***************************************************************************)
(* Claims about Time.Parse.                                                *)
(***************************************************************************)
\* C19: for every text, Time.Parse returns a Time or fails with
\* DateTimeFormatError, and with no other error.
C19_TimeOrDateTimeFormat ==
    (call.fn = "Time.Parse" /\ call.pc = "done") =>
        \/ call.out.pc = "return"
        \/ (call.out.pc = "raise" /\ call.out.error = "DateTimeFormatError")

(***************************************************************************)
(* Pivot.  Angles are multiples of 90 degrees, whose cosine and sine are   *)
(* whole numbers, so the matrices are exact.                               *)
(***************************************************************************)
\* math.cos(math.radians(angle)) and math.sin(math.radians(angle))
CosQuarter(angle) ==
    LET q == (angle \div 90) % 4
    IN  IF q = 0 THEN 1 ELSE IF q = 2 THEN -1 ELSE 0

SinQuarter(angle) ==
    LET q == (angle \div 90) % 4
    IN  IF q = 1 THEN 1 ELSE IF q = 3 THEN -1 ELSE 0

\* rot[n] of a list of three: the sequence index of the list index n, which
\* counts from the end when negative
ListIndex(n) == (n % 3) + 1

\* a looser test, for comparison: only an axis beyond z is refused
AxisBeyond(axis) == axis > 2

\* if axis not in [0, 1, 2]
AxisInvalid(axis) == axis \notin {0, 1, 2}

\* Pivot(rotation, axis, angle): the outcome of the call
Pivot(rotation, axis, angle) ==
    IF AxisInvalid(axis)
    THEN [pc |-> "raise", error |-> "Error", message |-> "Invalid axis"]
    ELSE LET c == CosQuarter(angle)
             s == SinQuarter(angle)
             i == ListIndex((axis + 1) % 3)
             j == ListIndex((axis + 2) % 3)
             k == ListIndex(axis)
             entry(r, col) ==
                 IF col = i THEN c * rotation[r][i] - s * rotation[r][j]
                 ELSE IF col = j THEN s * rotation[r][i] + c * rotation[r][j]
                 ELSE rotation[r][k]
         IN  [pc |-> "return",
              value |-> [r \in 1..3 |-> [col \in 1..3 |-> entry(r, col)]]]

IdentityMatrix == <<<<1, 0, 0>>, <<0, 1, 0>>, <<0, 0, 1>>>>

PivotAxes == -2..4
PivotAngles == {-90, 0, 90, 180, 270}

PivotInit ==
    /\ call \in {[fn |-> "Pivot", pc |-> "call", rotation |-> IdentityMatrix,
                  axis |-> ax, angle |-> an, out |-> Idle] :
                     ax \in PivotAxes, an \in PivotAngles}
    /\ OnlyCall

\* out = Pivot(rotation, axis, angle)
PivotCall ==
    /\ call.fn = "Pivot"
    /\ call.pc = "call"
    /\ call' = [call EXCEPT !.pc = "done",
                            !.out = Pivot(call.rotation, call.axis, call.angle)]
    /\ UNCHANGED callOthers

\* the caller pivots the matrix it got once more
PivotAgain ==
    /\ call.fn = "Pivot"
    /\ call.pc = "done"
    /\ call.out.pc = "return"
    /\ \E ax \in PivotAxes, an \in PivotAngles :
          call' = [fn |-> "Pivot", pc |-> "call", rotation |-> call.out.value,
                   axis |-> ax, angle |-> an, out |-> Idle]
    /\ UNCHANGED callOthers

PivotNext == PivotCall \/ PivotAgain

SpecPivot == PivotInit /\ [][PivotNext]_vars

Raised(e) == [pc |-> "raise", error |-> e]
Computed(what) == [pc |-> "return", value |-> what]

\* AngleFromSun(body, time)
GuardAngleFromSun(body) ==
    IF body = "Earth" THEN Raised("EarthNotAllowedError") ELSE Computed("computed")

\* PairLongitude(body1, body2, time)
GuardPairLongitude(body1, body2) ==
    IF body1 = "Earth" \/ body2 = "Earth" THEN Raised("EarthNotAllowedError")
    ELSE Computed("computed")

\* Elongation(body, time): PairLongitude(body, Body.Sun, time), then
\* AngleFromSun(body, time)
GuardElongation(body) ==
    With(GuardPairLongitude(body, "Sun"), LAMBDA angle :
        IF angle.pc = "raise" THEN angle ELSE GuardAngleFromSun(body))

\* GeoVector(body, time, aberration), as far as the Earth goes
GuardGeoVector(body) ==
    IF body = "Earth" THEN Computed("zero") ELSE Computed("computed")

\* Equator(body, time, observer, ofdate, aberration): the geocentric vector
\* of the body less that of the observer, with no test of the body
GuardEquator(body) ==
    With(GuardGeoVector(body), LAMBDA gc :
        IF gc.pc = "raise" THEN gc ELSE Computed("computed"))

\* SearchHourAngle(body, observer, hourAngle, startTime)
GuardSearchHourAngle(body, hourAngle) ==
    IF body = "Earth" THEN Raised("EarthNotAllowedError")
    ELSE IF hourAngle < 0 \/ hourAngle >= 24 THEN Raised("Error")
    ELSE Computed("computed")

\* _InternalSearchAltitude: the direction is tested, the altitude at the
\* start is taken through Equator, and either branch then calls
\* SearchHourAngle with an hour angle of 0 or 12
GuardInternalSearchAltitude(body, direction) ==
    IF direction \notin {"Rise", "Set"} THEN Raised("Error")
    ELSE With(GuardEquator(body), LAMBDA alt_before :
         IF alt_before.pc = "raise" THEN alt_before
         ELSE GuardSearchHourAngle(body, 0))

\* SearchRiseSet(body, observer, direction, startTime, limitDays)
GuardSearchRiseSet(body, direction) ==
    IF body = "Earth" THEN Raised("EarthNotAllowedError")
    ELSE GuardInternalSearchAltitude(body, direction)

\* SearchAltitude(body, observer, direction, dateStart, limitDays, altitude)
GuardSearchAltitude(body, direction, altitude) ==
    IF ~(-90 <= altitude /\ altitude <= 90) THEN Raised("Error")
    ELSE GuardInternalSearchAltitude(body, direction)

\* SearchRelativeLongitude(body, targetRelLon, startTime)
GuardSearchRelativeLongitude(body) ==
    IF body = "Earth" THEN Raised("EarthNotAllowedError")
    ELSE IF body \in {"Moon", "Sun"} THEN Raised("InvalidBodyError")
    ELSE Computed("computed")

GuardBodies == {"Sun", "Moon", "Earth", "Venus", "Mars", "Jupiter"}
GuardHourAngles == {-1, 0, 12, 23, 24}
GuardAltitudes == {-91, -90, 0, 90, 91}
GuardDirections == {"Rise", "Set", "None"}
GuardFunctions ==
    {"AngleFromSun", "PairLongitude", "Elongation", "Equator", "SearchHourAngle",
     "SearchRiseSet", "SearchAltitude", "SearchRelativeLongitude", "GeoVector"}

\* one call of one of the functions; an argument a function does not take
\* is left at its first value
GuardInit ==
    /\ call \in {[fn |-> f, pc |-> "call", body |-> b, body2 |-> b2,
                  hourAngle |-> ha, altitude |-> al, direction |-> dir,
                  out |-> Idle] :
                     f \in GuardFunctions, b \in GuardBodies,
                     b2 \in {"Sun", "Earth", "Mars"}, ha \in GuardHourAngles,
                     al \in GuardAltitudes, dir \in GuardDirections}
    /\ (call.fn # "PairLongitude" => call.body2 = "Sun")
    /\ (call.fn # "SearchHourAngle" => call.hourAngle = 0)
    /\ (call.fn # "SearchAltitude" => call.altitude = 0)
    /\ (call.fn \notin {"SearchAltitude", "SearchRiseSet"} => call.direction = "Rise")
    /\ OnlyCall

GuardDone(f, r) ==
    /\ call.fn = f
    /\ call.pc = "call"
    /\ call' = [call EXCEPT !.pc = "done", !.out = r]
    /\ UNCHANGED callOthers

CallAngleFromSun == GuardDone("AngleFromSun", GuardAngleFromSun(call.body))
CallPairLongitude == GuardDone("PairLongitude", GuardPairLongitude(call.body, call.body2))
CallElongation == GuardDone("Elongation", GuardElongation(call.body))
CallEquator == GuardDone("Equator", GuardEquator(call.body))
CallSearchHourAngle ==
    GuardDone("SearchHourAngle", GuardSearchHourAngle(call.body, call.hourAngle))
CallSearchRiseSet ==
    GuardDone("SearchRiseSet", GuardSearchRiseSet(call.body, call.direction))
CallSearchAltitude ==
    GuardDone("SearchAltitude",
              GuardSearchAltitude(call.body, call.direction, call.altitude))
CallSearchRelativeLongitude ==
    GuardDone("SearchRelativeLongitude", GuardSearchRelativeLongitude(call.body))
CallGeoVector == GuardDone("GeoVector", GuardGeoVector(call.body))

GuardNext ==
    \/ CallAngleFromSun
    \/ CallPairLongitude
    \/ CallElongation
    \/ CallEquator
    \/ CallSearchHourAngle
    \/ CallSearchRiseSet
    \/ CallSearchAltitude
    \/ CallSearchRelativeLongitude
    \/ CallGeoVector

SpecGuard == GuardInit /\ [][GuardNext]_vars

(***************************************************************************)
(* Claims about the Earth as a body.                                       *)
(***************************************************************************)
\* C21: AngleFromSun, PairLongitude, Elongation, Equator, SearchHourAngle,
\* SearchRiseSet, SearchAltitude and SearchRelativeLongitude fail with
\* EarthNotAllowedError when the body is the Earth, and GeoVector of the
\* Earth returns the zero vector.
C21_EarthNotAllowed ==
    (call.fn \in GuardFunctions /\ call.pc = "done" /\ call.body = "Earth") =>
        IF call.fn = "GeoVector"
        THEN call.out = Computed("zero")
        ELSE call.out = Raised("EarthNotAllowedError")

(***************************************************************************)
(* SearchPlanetApsis and NextPlanetApsis by body.  The orbits are those of *)
(* the apsis chains: every planet searched by slope has the period         *)
(* PlanetPeriod, Neptune and Pluto have BrutePeriod.                       *)
(***************************************************************************)
\* Body(enum.Enum): the value of each member
BodyValue ==
    [Invalid |-> -1, Mercury |-> 0, Venus |-> 1, Earth |-> 2, Mars |-> 3,
     Jupiter |-> 4, Saturn |-> 5, Uranus |-> 6, Neptune |-> 7, Pluto |-> 8,
     Sun |-> 9, Moon |-> 10, EMB |-> 11, SSB |-> 12]

\* _PlanetOrbitalPeriod: a list of nine periods, Mercury to Pluto
PlanetOrbitalPeriod ==
    <<PlanetPeriod, PlanetPeriod, PlanetPeriod, PlanetPeriod, PlanetPeriod,
      PlanetPeriod, PlanetPeriod, BrutePeriod, BrutePeriod>>

\* list[n]: an index below zero counts from the end, one outside the list
\* raises IndexError
ListLookup(list, n) ==
    IF n \in 0..(Len(list) - 1) THEN Computed(list[n + 1])
    ELSE IF n \in (-Len(list))..(-1) THEN Computed(list[Len(list) + n + 1])
    ELSE Raised("IndexError")

\* HelioDistance(body, time) raises InvalidBodyError, through HelioVector,
\* for a body that is none of the planets, Sun, Moon, EMB and SSB
HelioDistanceRaises(body) == BodyValue[body] \notin 0..12

\* SearchPlanetApsis(body, startTime)
SearchPlanetApsisOf(body, apo, startTime) ==
    IF body \in {"Neptune", "Pluto"}
    THEN SearchPlanetApsis([period |-> BrutePeriod, apo |-> apo, brute |-> TRUE],
                           startTime)
    ELSE With(ListLookup(PlanetOrbitalPeriod, BodyValue[body]), LAMBDA orbit_period_days :
         IF orbit_period_days.pc = "raise" THEN ApsisRaise(orbit_period_days.error)
         ELSE IF HelioDistanceRaises(body) THEN ApsisRaise("InvalidBodyError")
         ELSE SearchPlanetApsis([period |-> orbit_period_days.value, apo |-> apo,
                                 brute |-> FALSE], startTime))

\* NextPlanetApsis(body, apsis)
NextPlanetApsisOf(body, apo, apsis) ==
    IF KindInvalid(apsis.kind) THEN ApsisRaise("Error")
    ELSE With(ListLookup(PlanetOrbitalPeriod, BodyValue[body]), LAMBDA period :
         IF period.pc = "raise" THEN ApsisRaise(period.error)
         ELSE With(SearchPlanetApsisOf(body, apo,
                                       AddDays(apsis.time, Round(period.value, 4))),
                   LAMBDA next_apsis :
              IF next_apsis.pc = "raise" THEN next_apsis
              ELSE IF SameKind(next_apsis.kind, apsis.kind)
              THEN ApsisRaise("InternalError")
              ELSE next_apsis))

ApsisBodies == {"Sun", "Moon", "EMB", "SSB", "Invalid", "Venus", "Mars", "Neptune"}

ApsisBodyInit ==
    /\ call \in {[fn |-> f, pc |-> "call", body |-> b, apo |-> 0,
                  apsis |-> [kind |-> k, time |-> (n * PlanetPeriod) \div 4],
                  out |-> Idle] :
                     f \in {"SearchPlanetApsis", "NextPlanetApsis"},
                     b \in ApsisBodies, n \in 0..3,
                     k \in {Pericenter, Apocenter, Invalid}}
    /\ (call.fn = "SearchPlanetApsis" => call.apsis.kind = Invalid)
    /\ OnlyCall

\* out = SearchPlanetApsis(body, startTime), startTime being apsis.time
CallSearchPlanetApsis ==
    /\ call.fn = "SearchPlanetApsis"
    /\ call.pc = "call"
    /\ call' = [call EXCEPT !.pc = "done",
                            !.out = SearchPlanetApsisOf(call.body, call.apo,
                                                        call.apsis.time)]
    /\ UNCHANGED callOthers

\* out = NextPlanetApsis(body, apsis)
CallNextPlanetApsis ==
    /\ call.fn = "NextPlanetApsis"
    /\ call.pc = "call"
    /\ call' = [call EXCEPT !.pc = "done",
                            !.out = NextPlanetApsisOf(call.body, call.apo, call.apsis)]
    /\ UNCHANGED callOthers

ApsisBodyNext == CallSearchPlanetApsis \/ CallNextPlanetApsis

SpecApsisBody == ApsisBodyInit /\ [][ApsisBodyNext]_vars

(***************************************************************************)
(* Claims about the body of a planet apsis search.                         *)
(***************************************************************************)
\* C22: SearchPlanetApsis and NextPlanetApsis called with the Sun, the Moon,
\* EMB or SSB fail with InvalidBodyError.
C22_NotAPlanetIsInvalidBody ==
    (/\ call.fn \in {"SearchPlanetApsis", "NextPlanetApsis"}
     /\ call.pc = "done"
     /\ call.body \in {"Sun", "Moon", "EMB", "SSB"}) =>
        (call.out.pc = "raise" /\ call.out.error = "InvalidBodyError")

(***************************************************************************)
(* _LocalEclipse and SearchLocalSolarEclipse.  The shadow seen by the      *)
(* observer is a record: the time closest of the nearest pass of the axis, *)
(* its distance r0 then, its speed v, and the radii k and p of the umbra   *)
(* and the penumbra.  Times are in ticks of 1/ShadowDay day.               *)
(***************************************************************************)
\* the new moons looked at in one call
MaxNewMoons == 2

\* _LocalTransitionFunc: direction * func(shadow), func being limit - shadow.r
TransitionFunc(sh, limit, direction) ==
    [kind |-> "shadow", a |-> sh.r0, b |-> sh.v, c |-> sh.closest, d |-> limit,
     lo |-> 0, hi |-> direction]

\* an EclipseEvent, or None
NoEvent == [set |-> FALSE, time |-> 0]
CalcEvent(time) == [set |-> TRUE, time |-> time]

\* _LocalEclipseTransition(observer, direction, func, t1, t2)
EclipseTransition(sh, limit, direction, t1, t2) ==
    With(Search(TransitionFunc(sh, limit, direction), t1, t2, 1), LAMBDA search :
        IF search.pc = "raise" THEN Raised(search.result)
        ELSE IF search.result = "None" THEN Raised("Error")
        ELSE Computed(CalcEvent(search.t)))

\* _EclipseKindFromUmbra(k): 0.014 km is less than a unit of the radii
EclipseKindFromUmbra(k) == IF k > 0 THEN "Total" ELSE "Annular"

\* _LocalEclipse(shadow, observer), shadow being sh at the time peak with
\* the distance r; PARTIAL_WINDOW = 0.2, TOTAL_WINDOW = 0.01
LocalEclipse(sh, peak, r) ==
    With(EclipseTransition(sh, sh.p, 1, AddDays(peak, -Round(2 * ShadowDay, 10)), peak),
         LAMBDA partial_begin :
    IF partial_begin.pc = "raise" THEN partial_begin ELSE
    With(EclipseTransition(sh, sh.p, -1, peak, AddDays(peak, Round(2 * ShadowDay, 10))),
         LAMBDA partial_end :
    IF partial_end.pc = "raise" THEN partial_end ELSE
    IF r < Abs(sh.k)
    THEN With(EclipseTransition(sh, Abs(sh.k), 1,
                                AddDays(peak, -Round(ShadowDay, 100)), peak),
              LAMBDA total_begin :
         IF total_begin.pc = "raise" THEN total_begin ELSE
         With(EclipseTransition(sh, Abs(sh.k), -1, peak,
                                AddDays(peak, Round(ShadowDay, 100))),
              LAMBDA total_end :
         IF total_end.pc = "raise" THEN total_end ELSE
         Computed([kind |-> EclipseKindFromUmbra(sh.k),
                   partial_begin |-> partial_begin.value,
                   total_begin |-> total_begin.value,
                   peak |-> CalcEvent(peak),
                   total_end |-> total_end.value,
                   partial_end |-> partial_end.value])))
    ELSE Computed([kind |-> "Partial",
                   partial_begin |-> partial_begin.value,
                   total_begin |-> NoEvent,
                   peak |-> CalcEvent(peak),
                   total_end |-> NoEvent,
                   partial_end |-> partial_end.value])))

\* nmtime = newmoon.AddDays(10.0): no eclipse to return at this new moon
NoEclipse == [pc |-> "next"]

\* one pass of the loop of SearchLocalSolarEclipse at the new moon newmoon:
\* an eclipse the Sun is up for, an error, or "next"
LocalEclipseAt(sh, newmoon, latitude_small, sun_up) ==
    IF ~latitude_small THEN NoEclipse
    ELSE With(PeakLocalMoonShadow(sh.closest, newmoon), LAMBDA shadow :
         IF shadow.pc = "raise" THEN Raised(shadow.error)
         ELSE With(ShadowDistance(sh.r0, sh.v, sh.closest, shadow.t), LAMBDA r :
              IF r < sh.p
              THEN With(LocalEclipse(sh, shadow.t, r), LAMBDA eclipse :
                   IF eclipse.pc = "raise" \/ sun_up THEN eclipse
                   ELSE NoEclipse)
              ELSE NoEclipse))

\* what the ephemeris gives at a new moon: the nearest pass of the axis a
\* little before or after it, grazing the penumbra or well inside it
LocalShadows(newmoon) ==
    {[closest |-> newmoon + off, r0 |-> r0, v |-> 20, k |-> k, p |-> 50] :
        off \in {-7, 0, 5}, r0 \in {0, 10, 49, 50, 80}, k \in {-30, -5, 5, 30}}

LocalInit ==
    /\ call \in {[fn |-> "SearchLocalSolarEclipse", pc |-> "loop", nmtime |-> t,
                  passes |-> 0, out |-> Idle] :
                     t \in {-40 * ShadowDay, -3 * ShadowDay, 40 * ShadowDay}}
    /\ OnlyCall

\* newmoon = SearchMoonPhase(0.0, nmtime, 40.0), and one pass of the loop
LocalEclipsePass ==
    /\ call.fn = "SearchLocalSolarEclipse"
    /\ call.pc = "loop"
    /\ call.passes < MaxNewMoons
    /\ \E gap \in {0, 11, 5 * ShadowDay} :
       \E sh \in LocalShadows(AddDays(call.nmtime, gap)) :
       \E latitude_small \in BOOLEAN, sun_up \in BOOLEAN :
       \E r \in {LocalEclipseAt(sh, AddDays(call.nmtime, gap), latitude_small, sun_up)} :
          call' = IF r.pc = "next"
                  THEN [call EXCEPT !.passes = @ + 1,
                                    !.nmtime = AddDays(AddDays(call.nmtime, gap),
                                                       10 * ShadowDay)]
                  ELSE [call EXCEPT !.passes = @ + 1,
                                    !.pc = IF r.pc = "raise" THEN "raise" ELSE "return",
                                    !.out = r]
    /\ UNCHANGED callOthers

SpecLocalEclipse == LocalInit /\ [][LocalEclipsePass]_vars

(***************************************************************************)
(* Claims about SearchLocalSolarEclipse.                                   *)
(***************************************************************************)
\* C23: every LocalSolarEclipseInfo returned by SearchLocalSolarEclipse has
\* partial_begin and partial_end set, with partial_begin.time <= peak.time
\* <= partial_end.time, and has total_begin and total_end both None when kind
\* is Partial and both set otherwise.
C23_LocalEclipseInfo ==
    (call.fn = "SearchLocalSolarEclipse" /\ call.pc = "return") =>
        LET e == call.out.value
        IN  /\ e.partial_begin.set /\ e.partial_end.set
            /\ e.partial_begin.time <= e.peak.time
            /\ e.peak.time <= e.partial_end.time
            /\ IF e.kind = "Partial"
               THEN ~e.total_begin.set /\ ~e.total_end.set
               ELSE e.total_begin.set /\ e.total_end.set

(***************************************************************************)
(* SearchLunarEclipse.  The Earth's shadow at the Moon is a record: the    *)
(* time closest of the nearest pass of the Moon's centre to the axis, its  *)
(* distance r0 then, its speed v, and the radii k and p of the umbra and   *)
(* the penumbra.  Times are in ticks of 1/ShadowDay day; a semi-duration   *)
(* is kept as the difference t2.ut - t1.ut in ticks, twice the             *)
(* semi-duration.                                                          *)
(***************************************************************************)
\* _MOON_MEAN_RADIUS_KM, in the units of the radii of the model
MoonMeanRadius == 50

\* _EarthShadow(time).r
EarthShadowDistance(sh, t) == ShadowDistance(sh.r0, sh.v, sh.closest, t)

\* _ShadowDiff: direction * (_EarthShadow(time).r - radius_limit)
EarthShadowDiff(sh, radius_limit, direction) ==
    [kind |-> "shadow", a |-> sh.r0, b |-> sh.v, c |-> sh.closest,
     d |-> radius_limit, lo |-> 0, hi |-> -direction]

\* 200.0 minutes, in ticks
PenumbraWindow == Round(200 * ShadowDay, 24 * 60)

\* _ShadowSemiDurationMinutes(center_time, radius_limit, window_minutes) for
\* the shadow sh; window is in ticks
SemiDuration(sh, center_time, radius_limit, window) ==
    With(Search(EarthShadowDiff(sh, radius_limit, -1),
                AddDays(center_time, -window), center_time, 1), LAMBDA t1 :
    With(Search(EarthShadowDiff(sh, radius_limit, 1),
                center_time, AddDays(center_time, window), 1), LAMBDA t2 :
    IF t1.pc = "raise" THEN Raised(t1.result)
    ELSE IF t2.pc = "raise" THEN Raised(t2.result)
    ELSE IF t1.result = "None" \/ t2.result = "None" THEN Raised("Error")
    ELSE Computed(t2.t - t1.t)))

LunarEclipseInfo(kind, peak, sd_penum, sd_partial, sd_total) ==
    Computed([kind |-> kind, peak |-> peak, sd_penum |-> sd_penum,
              sd_partial |-> sd_partial, sd_total |-> sd_total])

\* the body of 'if shadow.r < shadow.p + _MOON_MEAN_RADIUS_KM' in
\* SearchLunarEclipse, the shadow being sh at the time peak; a window of
\* sd minutes is half the difference sd in ticks
LunarEclipseOf(sh, peak) ==
    With(EarthShadowDistance(sh, peak), LAMBDA r :
    With(SemiDuration(sh, peak, sh.p + MoonMeanRadius, PenumbraWindow),
         LAMBDA sd_penum :
    IF sd_penum.pc = "raise" THEN sd_penum ELSE
    IF r < sh.k + MoonMeanRadius
    THEN With(SemiDuration(sh, peak, sh.k + MoonMeanRadius,
                           Round(sd_penum.value, 2)),
              LAMBDA sd_partial :
         IF sd_partial.pc = "raise" THEN sd_partial ELSE
         IF r + MoonMeanRadius < sh.k
         THEN With(SemiDuration(sh, peak, sh.k - MoonMeanRadius,
                                Round(sd_partial.value, 2)),
                   LAMBDA sd_total :
              IF sd_total.pc = "raise" THEN sd_total ELSE
              LunarEclipseInfo("Total", peak, sd_penum.value, sd_partial.value,
                               sd_total.value))
         ELSE LunarEclipseInfo("Partial", peak, sd_penum.value,
                               sd_partial.value, 0))
    ELSE LunarEclipseInfo("Penumbral", peak, sd_penum.value, 0, 0)))

\* one pass of the loop of SearchLunarEclipse at the full moon fullmoon: an
\* eclipse, an error, or "next"
LunarEclipseAt(sh, fullmoon, latitude_small) ==
    IF ~latitude_small THEN NoEclipse
    ELSE With(PeakEarthShadow(sh.closest, fullmoon), LAMBDA shadow :
         IF shadow.pc = "raise" THEN Raised(shadow.error)
         ELSE IF EarthShadowDistance(sh, shadow.t) < sh.p + MoonMeanRadius
         THEN LunarEclipseOf(sh, shadow.t)
         ELSE NoEclipse)

\* what the ephemeris gives at a full moon: the nearest pass of the Moon to
\* the axis a little before or after it, grazing a limit or well inside it
EarthShadows(fullmoon) ==
    {[closest |-> fullmoon + off, r0 |-> r0, v |-> 20, k |-> 150, p |-> 400] :
        off \in {-3, 0, 2}, r0 \in {0, 99, 100, 199, 200, 300, 449, 450, 600}}

LunarInit ==
    /\ call \in {[fn |-> "SearchLunarEclipse", pc |-> "loop", fmtime |-> t,
                  passes |-> 0, out |-> Idle] :
                     t \in {-40 * ShadowDay, -3 * ShadowDay, 40 * ShadowDay}}
    /\ OnlyCall

\* fullmoon = SearchMoonPhase(180, fmtime, 40), and one pass of the loop
LunarEclipsePass ==
    /\ call.fn = "SearchLunarEclipse"
    /\ call.pc = "loop"
    /\ call.passes < LunationLimit
    /\ \E gap \in {0, 5 * ShadowDay} :
       \E sh \in EarthShadows(AddDays(call.fmtime, gap)) :
       \E latitude_small \in BOOLEAN :
       \E r \in {LunarEclipseAt(sh, AddDays(call.fmtime, gap), latitude_small)} :
          call' = IF r.pc = "next"
                  THEN [call EXCEPT !.passes = @ + 1,
                                    !.fmtime = AddDays(AddDays(call.fmtime, gap),
                                                       10 * ShadowDay)]
                  ELSE [call EXCEPT !.passes = @ + 1,
                                    !.pc = IF r.pc = "raise" THEN "raise" ELSE "return",
                                    !.out = r]
    /\ UNCHANGED callOthers

\* raise Error('Failed to find lunar eclipse within 12 full moons.')
LunarEclipseNone ==
    /\ call.fn = "SearchLunarEclipse"
    /\ call.pc = "loop"
    /\ call.passes = LunationLimit
    /\ call' = [call EXCEPT !.pc = "raise", !.out = Raised("Error")]
    /\ UNCHANGED callOthers

LunarEclipseNext == LunarEclipsePass \/ LunarEclipseNone

SpecLunarEclipse == LunarInit /\ [][LunarEclipseNext]_vars

(***************************************************************************)
(* Claims about SearchLunarEclipse.                                        *)
(***************************************************************************)
\* C27: every LunarEclipseInfo returned by SearchLunarEclipse has sd_partial
\* = sd_total = 0 when kind is Penumbral, sd_total = 0 when kind is Partial,
\* and 0 <= sd_total <= sd_partial <= sd_penum <= 200 minutes in all cases.
C27_SemiDurations ==
    (call.fn = "SearchLunarEclipse" /\ call.pc = "return") =>
        LET e == call.out.value
        IN  /\ e.kind = "Penumbral" => (e.sd_partial = 0 /\ e.sd_total = 0)
            /\ e.kind = "Partial" => e.sd_total = 0
            /\ 0 <= e.sd_total
            /\ e.sd_total <= e.sd_partial
            /\ e.sd_partial <= e.sd_penum
            /\ e.sd_penum <= 2 * PenumbraWindow

====
